---- MODULE Spec2Model ----
(***************************************************************************)
(* A model of the print-estimate core of localfab.now: the file-volume     *)
(* dispatcher and its parsers, the estimate engine and the price           *)
(* calculator (lib/3d-utils.ts, the revision that carries calculatePrice). *)
(*                                                                         *)
(* Numbers.  A JavaScript number is modelled as a record                   *)
(*   [k |-> "fin", n |-> numerator, d |-> denominator]  (a reduced         *)
(*   rational), or NaN, +Infinity, -Infinity, or one of the two non-number *)
(*   values null / undefined that a settings field may hold.  Arithmetic   *)
(*   on finite values is exact; the special values follow IEEE-754 as      *)
(*   JavaScript exposes it (x/0, Inf-Inf, Math.max with NaN, ...).         *)
(*   Rounding error and overflow of finite operands are not modelled, and  *)
(*   Math.cbrt and Math.sqrt are truncated to a whole number, Math.PI is   *)
(*   22/7.                                                                 *)
(***************************************************************************)
EXTENDS Integers, Sequences, FiniteSets, TLC

VARIABLES
    file,            \* the File handed to calculatePrintEstimate
    settings,        \* the PrintSettings handed to it
    pc,              \* position inside calculatePrintEstimate / calculateFileVolume
    parsed,          \* outcome of the selected parser: a volume or a thrown error
    volume,          \* what calculateFileVolume returned
    filamentGrams,   \* estimateFilamentGrams(volume, settings)
    filamentMeters,  \* estimateFilamentMeters(filamentGrams, material)
    estimatedTime,   \* estimatePrintTime(volume, settings)
    priceBreakdown,  \* calculatePrice(estimatedTime, settings)
    result,          \* what calculatePrintEstimate returned or threw
    form,            \* the remaining React state of OrderForm
    tasks,           \* the timers, requests and calls of OrderForm in flight
    viewer           \* the React state of ModelViewer and its loads in flight

vars == <<file, settings, pc, parsed, volume, filamentGrams, filamentMeters,
          estimatedTime, priceBreakdown, result, form, tasks, viewer>>

-----------------------------------------------------------------------------
(* JavaScript numbers *)

RECURSIVE GCD(_, _)
GCD(a, b) == IF b = 0 THEN a ELSE GCD(b, a % b)

AbsInt(a) == IF a < 0 THEN -a ELSE a

\* the finite number n/d (d > 0), reduced
Fin(n, d) ==
    LET g == GCD(AbsInt(n), d)
    IN  IF n = 0 THEN [k |-> "fin", n |-> 0, d |-> 1]
        ELSE [k |-> "fin", n |-> n \div g, d |-> d \div g]

Rat(n, d) == IF d < 0 THEN Fin(-n, -d) ELSE Fin(n, d)
I(n) == [k |-> "fin", n |-> n, d |-> 1]

NaN == [k |-> "nan", n |-> 0, d |-> 1]
PInf == [k |-> "inf", n |-> 1, d |-> 1]
NInf == [k |-> "inf", n |-> -1, d |-> 1]
Null == [k |-> "null", n |-> 0, d |-> 1]
Undefined == [k |-> "undefined", n |-> 0, d |-> 1]

\* isFinite(x), isNaN(x), and the sign of a number
isFinite(x) == x.k = "fin"
isNaN(x) == x.k = "nan"
Sgn(x) == IF x.n > 0 THEN 1 ELSE IF x.n < 0 THEN -1 ELSE 0

\* !x for a number: 0 and NaN are falsy
Falsy(x) == x.k = "nan" \/ (x.k = "fin" /\ x.n = 0)

Neg(x) == IF x.k = "nan" THEN NaN ELSE [x EXCEPT !.n = -x.n]

Add(x, y) ==
    IF x.k = "nan" \/ y.k = "nan" THEN NaN
    ELSE IF x.k = "inf" /\ y.k = "inf" THEN (IF x.n = y.n THEN x ELSE NaN)
    ELSE IF x.k = "inf" THEN x
    ELSE IF y.k = "inf" THEN y
    ELSE LET g == GCD(x.d, y.d)
         IN  Fin(x.n * (y.d \div g) + y.n * (x.d \div g), (x.d \div g) * y.d)

Sub(x, y) == Add(x, Neg(y))

Mul(x, y) ==
    IF x.k = "nan" \/ y.k = "nan" THEN NaN
    ELSE IF x.k = "inf" \/ y.k = "inf"
         THEN (IF Sgn(x) * Sgn(y) = 0 THEN NaN
               ELSE IF Sgn(x) * Sgn(y) > 0 THEN PInf ELSE NInf)
    ELSE LET g1 == GCD(AbsInt(x.n), y.d)
             g2 == GCD(AbsInt(y.n), x.d)
             a == IF x.n = 0 THEN 0 ELSE x.n \div g1
             b == IF y.n = 0 THEN 0 ELSE y.n \div g2
             c == IF y.n = 0 THEN 1 ELSE x.d \div g2
             e == IF x.n = 0 THEN 1 ELSE y.d \div g1
         IN  Fin(a * b, c * e)

Div(x, y) ==
    IF x.k = "nan" \/ y.k = "nan" THEN NaN
    ELSE IF x.k = "inf" /\ y.k = "inf" THEN NaN
    ELSE IF x.k = "inf" THEN (IF Sgn(y) < 0 THEN Neg(x) ELSE x)
    ELSE IF y.k = "inf" THEN I(0)
    ELSE IF y.n = 0
         THEN (IF x.n = 0 THEN NaN ELSE IF x.n > 0 THEN PInf ELSE NInf)
    ELSE Mul(x, Rat(y.d, y.n))

\* x < y and x <= y; every comparison with NaN is false
Lt(x, y) ==
    IF x.k = "nan" \/ y.k = "nan" THEN FALSE
    ELSE IF x.k = "inf" THEN x.n < 0 /\ ~(y.k = "inf" /\ y.n < 0)
    ELSE IF y.k = "inf" THEN y.n > 0
    ELSE x.n * y.d < y.n * x.d

Le(x, y) == Lt(x, y) \/ (x.k # "nan" /\ x = y)

\* Math.max, Math.min, Math.abs
MathMax(x, y) ==
    IF x.k = "nan" \/ y.k = "nan" THEN NaN ELSE IF Lt(x, y) THEN y ELSE x

MathMin(x, y) ==
    IF x.k = "nan" \/ y.k = "nan" THEN NaN ELSE IF Lt(y, x) THEN y ELSE x

MathAbs(x) == IF x.k = "nan" THEN NaN ELSE [x EXCEPT !.n = AbsInt(x.n)]

\* floor and ceiling of n/d for d > 0
FloorDiv(n, d) == IF n >= 0 THEN n \div d ELSE -((-n + d - 1) \div d)
CeilDiv(n, d) == -FloorDiv(-n, d)

\* Math.round (halves go up) and Math.ceil
MathRound(x) == IF x.k = "fin" THEN I(FloorDiv(2 * x.n + x.d, 2 * x.d)) ELSE x
MathCeil(x) == IF x.k = "fin" THEN I(CeilDiv(x.n, x.d)) ELSE x

\* Math.cbrt and Math.sqrt, truncated to a whole number
RECURSIVE CbrtSearch(_, _, _)
CbrtSearch(m, lo, hi) ==
    IF lo >= hi THEN lo
    ELSE LET mid == (lo + hi + 1) \div 2
         IN  IF mid * mid * mid <= m THEN CbrtSearch(m, mid, hi)
             ELSE CbrtSearch(m, lo, mid - 1)

RECURSIVE SqrtSearch(_, _, _)
SqrtSearch(m, lo, hi) ==
    IF lo >= hi THEN lo
    ELSE LET mid == (lo + hi + 1) \div 2
         IN  IF mid * mid <= m THEN SqrtSearch(m, mid, hi)
             ELSE SqrtSearch(m, lo, mid - 1)

MathCbrt(x) ==
    IF x.k # "fin" THEN x
    ELSE I(Sgn(x) * CbrtSearch(FloorDiv(AbsInt(x.n), x.d), 0, 1290))

MathSqrt(x) ==
    IF x.k = "nan" THEN NaN
    ELSE IF x.k = "inf" THEN (IF x.n > 0 THEN PInf ELSE NaN)
    ELSE IF x.n < 0 THEN NaN
    ELSE I(SqrtSearch(FloorDiv(x.n, x.d), 0, 46340))

MathPI == Rat(22, 7)

-----------------------------------------------------------------------------
(* Files.                                                                    *)
(* A file is [name, size, data].  name is the sequence of its characters.    *)
(* data describes the bytes by what the parsers read of them:                *)
(*   len    the byte length;                                                 *)
(*   b80    the byte at offset 80, or -1 when len <= 80;                     *)
(*   count  the little-endian uint32 at offset 80 (its low byte is b80);     *)
(*   tris   the complete 50-byte triangle records that follow offset 84,     *)
(*          each <<v1, v2, v3>> of float32 vertices;                         *)
(*   lines  the lines of the decoded text, each [t, f, w]: t the keyword the *)
(*          trimmed line starts with, f the numbers parseFloat / parseInt    *)
(*          give for the fields after it (NaN for a field that is no         *)
(*          number), w the width of the line in bytes;                       *)
(*   isZip  whether the bytes are a zip archive, and zip, its entries.       *)

Vec(x, y, z) == [x |-> x, y |-> y, z |-> z]
Origin == Vec(I(0), I(0), I(0))

\* what a parser gives: a number, or a thrown error
Ok(v) == [kind |-> "ok", v |-> v, err |-> ""]
Throw(e) == [kind |-> "throw", v |-> NaN, err |-> e]

calculateTetrahedronVolume(v1, v2, v3, ref) ==
    LET p1 == Vec(Sub(v1.x, ref.x), Sub(v1.y, ref.y), Sub(v1.z, ref.z))
        p2 == Vec(Sub(v2.x, ref.x), Sub(v2.y, ref.y), Sub(v2.z, ref.z))
        p3 == Vec(Sub(v3.x, ref.x), Sub(v3.y, ref.y), Sub(v3.z, ref.z))
        crossX == Sub(Mul(p2.y, p3.z), Mul(p2.z, p3.y))
        crossY == Sub(Mul(p2.z, p3.x), Mul(p2.x, p3.z))
        crossZ == Sub(Mul(p2.x, p3.y), Mul(p2.y, p3.x))
        dot == Add(Add(Mul(p1.x, crossX), Mul(p1.y, crossY)), Mul(p1.z, crossZ))
    IN  Div(dot, I(6))

\* sumX, sumY, sumZ over vertices lo .. hi.  The numbers are exact, so the
\* order of the additions does not matter and the sum is taken by halves.
RECURSIVE SumVertices(_, _, _)
SumVertices(vs, lo, hi) ==
    IF lo > hi THEN Origin
    ELSE IF lo = hi THEN vs[lo]
    ELSE LET mid == (lo + hi) \div 2
             a == SumVertices(vs, lo, mid)
             b == SumVertices(vs, mid + 1, hi)
         IN  Vec(Add(a.x, b.x), Add(a.y, b.y), Add(a.z, b.z))

\* the mean of the vertices rounded to whole millimeters
Centroid_Rounded(vs) ==
    IF Len(vs) > 0
    THEN LET sum == SumVertices(vs, 1, Len(vs))
             n == I(Len(vs))
         IN  Vec(MathRound(Div(sum.x, n)), MathRound(Div(sum.y, n)), MathRound(Div(sum.z, n)))
    ELSE Origin

\* the mean of the vertices, the origin when there is none
Centroid(vs) ==
    IF Len(vs) > 0
    THEN LET sum == SumVertices(vs, 1, Len(vs))
             n == I(Len(vs))
         IN  Vec(Div(sum.x, n), Div(sum.y, n), Div(sum.z, n))
    ELSE Origin

\* totalVolume over triangles lo .. hi: += volume when it is finite
RECURSIVE SumTriangles(_, _, _, _)
SumTriangles(ts, lo, hi, ref) ==
    IF lo > hi THEN I(0)
    ELSE IF lo = hi
    THEN LET vol == calculateTetrahedronVolume(ts[lo][1], ts[lo][2], ts[lo][3], ref)
         IN  IF isFinite(vol) THEN vol ELSE I(0)
    ELSE LET mid == (lo + hi) \div 2
         IN  Add(SumTriangles(ts, lo, mid, ref), SumTriangles(ts, mid + 1, hi, ref))

\* the signed total, converted to cm^3
FinalVolume_Signed(total) == Div(total, I(1000))

\* Convert from mm^3 to cm^3 and take absolute value
FinalVolume(total) == Div(MathAbs(total), I(1000))

STL_HEADER == 84
STL_RECORD == 50

\* the triangle record that starts at a byte offset
TriangleAt(data, offset) == data.tris[(offset - STL_HEADER) \div STL_RECORD + 1]

\* the first pass stopping one record early when the last record ends the buffer
RECURSIVE BinaryIterations_Strict(_, _, _)
BinaryIterations_Strict(data, i, offset) ==
    IF i < data.count /\ offset + STL_RECORD < data.len
    THEN BinaryIterations_Strict(data, i + 1, offset + STL_RECORD)
    ELSE i

\* the iterations of  for (i < numTriangles && offset + 50 <= data.length)
RECURSIVE BinaryIterations(_, _, _)
BinaryIterations(data, i, offset) ==
    IF i < data.count /\ offset + STL_RECORD <= data.len
    THEN BinaryIterations(data, i + 1, offset + STL_RECORD)
    ELSE i

\* the iterations of  for (i < numTriangles) { if (offset + 50 > data.length) break
RECURSIVE BinaryVolumeIterations(_, _, _)
BinaryVolumeIterations(data, i, offset) ==
    IF i < data.count
    THEN IF offset + STL_RECORD > data.len THEN i
         ELSE BinaryVolumeIterations(data, i + 1, offset + STL_RECORD)
    ELSE i

\* the triangles a pass of parseBinarySTL with n iterations reads, in order
BinaryTriangles(data, n) ==
    [j \in 1..n |-> TriangleAt(data, STL_HEADER + (j - 1) * STL_RECORD)]

\* the vertices of a sequence of triangles, in order
VerticesOf(ts) == [j \in 1..(3 * Len(ts)) |-> ts[(j + 2) \div 3][((j - 1) % 3) + 1]]

parseBinarySTL(data) ==
    IF data.len < STL_HEADER THEN Throw("Invalid STL file: too short")
    ELSE LET referencePoint ==
                 Centroid(VerticesOf(BinaryTriangles(data, BinaryIterations(data, 0, STL_HEADER))))
             triangles == BinaryTriangles(data, BinaryVolumeIterations(data, 0, STL_HEADER))
             totalVolume == SumTriangles(triangles, 1, Len(triangles), referencePoint)
         IN  Ok(FinalVolume(totalVolume))

\* a "vertex" line with at least three fields, all numbers
IsVertex(line) ==
    /\ line.t = "vertex"
    /\ Len(line.f) >= 3
    /\ ~isNaN(line.f[1]) /\ ~isNaN(line.f[2]) /\ ~isNaN(line.f[3])

\* no line empties currentVertices
IsFacetEnd_Never(line) == FALSE

IsFacetEnd(line) == line.t \in {"endfacet", "endsolid"}

VertexOf(line) == Vec(line.f[1], line.f[2], line.f[3])

\* first pass of parseASCIISTL: allVertices
AsciiAllVertices(lines) ==
    LET kept == SelectSeq(lines, IsVertex)
    IN  [j \in 1..Len(kept) |-> VertexOf(kept[j])]

\* the vertex lines among lines 1 .. i that follow the last endfacet/endsolid
\* line: what has been pushed on currentVertices since it was last emptied by
\* such a line
RunVertices(lines, i) ==
    LET ends == {j \in 1..i : IsFacetEnd(lines[j])}
        start == IF ends = {} THEN 0 ELSE CHOOSE j \in ends : \A k \in ends : k <= j
    IN  {j \in (start + 1)..i : IsVertex(lines[j])}

\* currentVertices.length === 3 after the push of line i: every third vertex
\* line of a run, since the third one empties currentVertices too
ClosesTriangle(lines, i) ==
    IsVertex(lines[i]) /\ Cardinality(RunVertices(lines, i)) % 3 = 0

\* second pass of parseASCIISTL: the triangles whose volume is computed, in order
AsciiTriangles(lines) ==
    LET Last(S) == CHOOSE j \in S : \A k \in S : k <= j
        closing == SelectSeq([i \in 1..Len(lines) |-> i],
                             LAMBDA i : ClosesTriangle(lines, i))
        second(i) == Last(RunVertices(lines, i - 1))
        first(i) == Last(RunVertices(lines, second(i) - 1))
    IN  [j \in 1..Len(closing) |->
            <<VertexOf(lines[first(closing[j])]), VertexOf(lines[second(closing[j])]),
              VertexOf(lines[closing[j]])>>]

\* the reference point taken over the vertices of the summed triangles only
parseASCIISTL_TriangleMean(data) ==
    LET triangles == AsciiTriangles(data.lines)
        referencePoint == Centroid(VerticesOf(triangles))
        totalVolume == SumTriangles(triangles, 1, Len(triangles), referencePoint)
    IN  Ok(FinalVolume(totalVolume))

parseASCIISTL(data) ==
    LET referencePoint == Centroid(AsciiAllVertices(data.lines))
        triangles == AsciiTriangles(data.lines)
        totalVolume == SumTriangles(triangles, 1, Len(triangles), referencePoint)
    IN  Ok(FinalVolume(totalVolume))

\* the test without uint8Array[80] !== undefined
isBinary_AnyByte(data) == data.b80 < 32 \/ data.b80 > 126

\* uint8Array[80] !== undefined && (uint8Array[80] < 32 || uint8Array[80] > 126)
isBinary(data) == data.b80 # -1 /\ (data.b80 < 32 \/ data.b80 > 126)

calculateSTLVolume(data) ==
    IF isBinary(data) THEN parseBinarySTL(data) ELSE parseASCIISTL(data)

\* the vertices of the "v" lines with three numeric fields, in order
IsObjVertex(line) ==
    /\ line.t = "v"
    /\ Len(line.f) >= 3
    /\ ~isNaN(line.f[1]) /\ ~isNaN(line.f[2]) /\ ~isNaN(line.f[3])

ObjVertices(lines) ==
    LET kept == SelectSeq(lines, IsObjVertex)
    IN  [j \in 1..Len(kept) |-> VertexOf(kept[j])]

\* the 0-based indices an "f" line gives: those that parse to a number > 0
FaceIndices(line) ==
    LET kept == SelectSeq(line.f, LAMBDA x : ~isNaN(x) /\ Lt(I(0), x))
    IN  [j \in 1..Len(kept) |-> Sub(kept[j], I(1))]

\* the index lists of the "f" lines that give at least three
ObjFaces(lines) ==
    LET kept == SelectSeq(lines, LAMBDA l : l.t = "f" /\ Len(FaceIndices(l)) >= 3)
    IN  [j \in 1..Len(kept) |-> FaceIndices(kept[j])]

\* vertices[k] is defined
HasVertex(vertices, k) == k.k = "fin" /\ k.d = 1 /\ k.n >= 0 /\ k.n < Len(vertices)

\* a strip instead of a fan: the triangles (v[i-1], v[i], v[i+1])
RECURSIVE FanTriangles_Strip(_, _, _)
FanTriangles_Strip(vertices, face, last) ==
    IF last < 1 THEN <<>>
    ELSE Append(FanTriangles_Strip(vertices, face, last - 1),
                <<vertices[face[last].n + 1], vertices[face[last + 1].n + 1],
                  vertices[face[last + 2].n + 1]>>)

\* the triangles the fan loop of one face gives for i = 1 .. last
RECURSIVE FanTriangles(_, _, _)
FanTriangles(vertices, face, last) ==
    IF last < 1 THEN <<>>
    ELSE LET seen == FanTriangles(vertices, face, last - 1)
         IN  IF HasVertex(vertices, face[last + 1]) /\ HasVertex(vertices, face[last + 2])
             THEN Append(seen, <<vertices[face[1].n + 1],
                                 vertices[face[last + 1].n + 1],
                                 vertices[face[last + 2].n + 1]>>)
             ELSE seen

\* the triangles of the first n faces
RECURSIVE ObjTriangles(_, _, _)
ObjTriangles(vertices, faces, n) ==
    IF n = 0 THEN <<>>
    ELSE LET seen == ObjTriangles(vertices, faces, n - 1)
         IN  IF Len(faces[n]) >= 3 /\ HasVertex(vertices, faces[n][1])
             THEN seen \o FanTriangles(vertices, faces[n], Len(faces[n]) - 2)
             ELSE seen

\* the bounding box of the first n vertices
RECURSIVE BoundingBox(_, _)
BoundingBox(vertices, n) ==
    IF n = 0
    THEN [minX |-> PInf, maxX |-> NInf, minY |-> PInf, maxY |-> NInf,
          minZ |-> PInf, maxZ |-> NInf]
    ELSE LET box == BoundingBox(vertices, n - 1)
         IN  [minX |-> MathMin(box.minX, vertices[n].x),
              maxX |-> MathMax(box.maxX, vertices[n].x),
              minY |-> MathMin(box.minY, vertices[n].y),
              maxY |-> MathMax(box.maxY, vertices[n].y),
              minZ |-> MathMin(box.minZ, vertices[n].z),
              maxZ |-> MathMax(box.maxZ, vertices[n].z)]

\* a reader that also refuses a text without faces
calculateOBJVolume_FacesRequired(data) ==
    IF Len(ObjVertices(data.lines)) = 0 \/ Len(ObjFaces(data.lines)) = 0
    THEN Throw("No vertices found in OBJ file")
    ELSE Ok(I(0))

calculateOBJVolume(data) ==
    LET vertices == ObjVertices(data.lines)
        faces == ObjFaces(data.lines)
    IN  IF Len(vertices) = 0 THEN Throw("No vertices found in OBJ file")
        ELSE IF Len(faces) = 0
             THEN LET box == BoundingBox(vertices, Len(vertices))
                      width == Sub(box.maxX, box.minX)
                      height == Sub(box.maxY, box.minY)
                      depth == Sub(box.maxZ, box.minZ)
                      boundingVolume == Mul(Mul(width, height), depth)
                  IN  Ok(Div(Mul(boundingVolume, Rat(6, 10)), I(1000)))
        ELSE LET referencePoint == Centroid(vertices)
                 triangles == ObjTriangles(vertices, faces, Len(faces))
                 totalVolume == SumTriangles(triangles, 1, Len(triangles), referencePoint)
             IN  Ok(FinalVolume(totalVolume))

-----------------------------------------------------------------------------
(* Strings, as sequences of characters *)

toLowerCase(str) ==
    LET UpperCase ==
            <<"A", "B", "C", "D", "E", "F", "G", "H", "I", "J", "K", "L", "M",
              "N", "O", "P", "Q", "R", "S", "T", "U", "V", "W", "X", "Y", "Z">>
        LowerCase ==
            <<"a", "b", "c", "d", "e", "f", "g", "h", "i", "j", "k", "l", "m",
              "n", "o", "p", "q", "r", "s", "t", "u", "v", "w", "x", "y", "z">>
    IN  [i \in 1..Len(str) |->
            IF \E j \in 1..26 : UpperCase[j] = str[i]
            THEN LowerCase[CHOOSE j \in 1..26 : UpperCase[j] = str[i]]
            ELSE str[i]]

endsWith(str, suffix) ==
    /\ Len(str) >= Len(suffix)
    /\ SubSeq(str, Len(str) - Len(suffix) + 1, Len(str)) = suffix

\* str.split('.').pop(): what follows the last dot, the whole string without one
SplitPop(str) ==
    LET dots == {i \in 1..Len(str) : str[i] = "."}
        last == IF dots = {} THEN 0 ELSE CHOOSE i \in dots : \A j \in dots : j <= i
    IN  SubSeq(str, last + 1, Len(str))

EXT_STL == <<"s", "t", "l">>
EXT_OBJ == <<"o", "b", "j">>
EXT_3MF == <<"3", "m", "f">>
DOT_STL == <<".", "s", "t", "l">>
DOT_OBJ == <<".", "o", "b", "j">>
DOT_MODEL == <<".", "m", "o", "d", "e", "l">>

-----------------------------------------------------------------------------
(* 3MF: an archive of entries [path, dir, data, doc]; doc is the parsed XML  *)
(* of the entry: [unit, ns, meshes], unit the root's unit attribute          *)
(* (NoUnit when absent), ns the root's namespace URI ("" when none), meshes  *)
(* the elements with local name mesh in document order, each                 *)
(* [prefix, ns, hasVertices, vertices, hasTriangles, triangles].             *)

NoUnit == <<>>
CORE_NS == "http://schemas.microsoft.com/3dmanufacturing/core/2015/02"

U_MILLIMETER == <<"m", "i", "l", "l", "i", "m", "e", "t", "e", "r">>
U_MICRON == <<"m", "i", "c", "r", "o", "n">>

\* unitToMm[unit.toLowerCase()] || 1
unitFactor(unit) ==
    LET u == toLowerCase(unit)
    IN  CASE u \in {<<"c", "o", "n", "s", "t", "r", "u", "c", "t", "o", "r">>,
                    <<"_", "_", "p", "r", "o", "t", "o", "_", "_">>} -> NaN
          [] u = <<"m", "e", "t", "e", "r">> -> I(1000)
          [] u = U_MILLIMETER -> I(1)
          [] u = <<"i", "n", "c", "h">> -> Rat(254, 10)
          [] u = <<"f", "o", "o", "t">> -> Rat(3048, 10)
          [] u = U_MICRON -> Rat(1, 1000)
          [] OTHER -> I(1)


\* the vertex children of a mesh whose x, y, z parse, converted to millimeters
ScaledVertices(mesh, factor) ==
    LET kept == SelectSeq(mesh.vertices,
                          LAMBDA v : ~isNaN(v.x) /\ ~isNaN(v.y) /\ ~isNaN(v.z))
    IN  [j \in 1..Len(kept) |->
            Vec(Mul(kept[j].x, factor), Mul(kept[j].y, factor), Mul(kept[j].z, factor))]

\* allVertices: the vertices of those of the first n meshes that have a
\* vertices element
RECURSIVE AllMeshVertices(_, _, _)
AllMeshVertices(meshes, n, factor) ==
    IF n = 0 THEN <<>>
    ELSE LET allVertices == AllMeshVertices(meshes, n - 1, factor)
         IN  IF meshes[n].hasVertices
             THEN allVertices \o ScaledVertices(meshes[n], factor)
             ELSE allVertices

\* a triangle whose three indices are in range of the mesh's own vertices
InRange(t, meshVertices) ==
    /\ Le(I(0), t[1]) /\ Le(I(0), t[2]) /\ Le(I(0), t[3])
    /\ Lt(t[1], I(Len(meshVertices)))
    /\ Lt(t[2], I(Len(meshVertices)))
    /\ Lt(t[3], I(Len(meshVertices)))

MeshTriangles(meshVertices, triangles) ==
    LET kept == SelectSeq(triangles, LAMBDA t : InRange(t, meshVertices))
    IN  [j \in 1..Len(kept) |-> <<meshVertices[kept[j][1].n + 1],
                                  meshVertices[kept[j][2].n + 1],
                                  meshVertices[kept[j][3].n + 1]>>]

\* the indices of every mesh taken into one list of the vertices of all meshes
RECURSIVE AllMeshTriangles_Global(_, _, _)
AllMeshTriangles_Global(meshes, n, factor) ==
    IF n = 0 THEN <<>>
    ELSE LET seen == AllMeshTriangles_Global(meshes, n - 1, factor)
         IN  IF meshes[n].hasTriangles /\ meshes[n].hasVertices
             THEN seen \o MeshTriangles(AllMeshVertices(meshes, Len(meshes), factor),
                                        meshes[n].triangles)
             ELSE seen

\* the triangles of those of the first n meshes that have both elements
RECURSIVE AllMeshTriangles(_, _, _)
AllMeshTriangles(meshes, n, factor) ==
    IF n = 0 THEN <<>>
    ELSE LET seen == AllMeshTriangles(meshes, n - 1, factor)
         IN  IF meshes[n].hasTriangles /\ meshes[n].hasVertices
             THEN seen \o MeshTriangles(ScaledVertices(meshes[n], factor),
                                        meshes[n].triangles)
             ELSE seen

calculateVolumeFromMeshes(meshes, unit) ==
    LET factor == unitFactor(unit)
        referencePoint == Centroid(AllMeshVertices(meshes, Len(meshes), factor))
        triangles == AllMeshTriangles(meshes, Len(meshes), factor)
        totalVolume == SumTriangles(triangles, 1, Len(triangles), referencePoint)
    IN  FinalVolume(totalVolume)

\* the entries that are no directory and whose lower-cased path ends in a suffix
EntriesEnding(zip, suffixes) ==
    SelectSeq(zip, LAMBDA e :
        ~e.dir /\ \E sfx \in suffixes : endsWith(toLowerCase(e.path), sfx))

\* xmlDoc.getElementsByTagName('mesh'): the meshes whose qualified name is mesh
UnqualifiedMeshes(doc) == SelectSeq(doc.meshes, LAMBDA m : m.prefix = "")

\* xmlDoc.getElementsByTagNameNS(namespace, 'mesh')
NamespacedMeshes(doc) ==
    LET namespace == IF doc.ns = "" THEN CORE_NS ELSE doc.ns
    IN  SelectSeq(doc.meshes, LAMBDA m : m.ns = namespace)

parseModel(doc) ==
    LET unit == IF doc.unit = NoUnit THEN U_MILLIMETER ELSE doc.unit
        meshes == UnqualifiedMeshes(doc)
        nsMeshes == NamespacedMeshes(doc)
    IN  IF Len(meshes) = 0
        THEN IF Len(nsMeshes) = 0
             THEN Throw("No mesh elements found in 3MF model file")
             ELSE Ok(calculateVolumeFromMeshes(nsMeshes, unit))
        ELSE Ok(calculateVolumeFromMeshes(meshes, unit))

\* the loose STL or OBJ entry looked for before the model entry
calculate3MFVolume_LooseFirst(data) ==
    IF ~data.isZip THEN Throw("Can't find end of central directory")
    ELSE LET models == EntriesEnding(data.zip, {<<".", "m", "o", "d", "e", "l">>})
             loose == EntriesEnding(data.zip, {DOT_STL, DOT_OBJ})
         IN  IF Len(loose) = 0
             THEN IF Len(models) = 0 THEN Throw("No model file found in 3MF archive")
                  ELSE parseModel(models[1].doc)
             ELSE IF endsWith(toLowerCase(loose[1].path), DOT_STL)
                  THEN calculateSTLVolume(loose[1].data)
                  ELSE calculateOBJVolume(loose[1].data)

calculate3MFVolume(data) ==
    IF ~data.isZip THEN Throw("Can't find end of central directory")
    ELSE LET models == EntriesEnding(data.zip, {<<".", "m", "o", "d", "e", "l">>})
             loose == EntriesEnding(data.zip, {DOT_STL, DOT_OBJ})
         IN  IF Len(models) = 0
             THEN IF Len(loose) = 0 THEN Throw("No model file found in 3MF archive")
                  ELSE IF endsWith(toLowerCase(loose[1].path), DOT_STL)
                       THEN calculateSTLVolume(loose[1].data)
                       ELSE calculateOBJVolume(loose[1].data)
             ELSE parseModel(models[1].doc)

-----------------------------------------------------------------------------
(* calculateFileVolume *)

\* the parser the extension selects, and what it gives
selectedParser(f) ==
    LET extension == SplitPop(toLowerCase(f.name))
    IN  CASE extension = EXT_STL -> calculateSTLVolume(f.data)
          [] extension = EXT_OBJ -> calculateOBJVolume(f.data)
          [] extension = EXT_3MF -> calculate3MFVolume(f.data)
          [] OTHER -> Throw("Unsupported file format")

BYTES_PER_MB == 1048576

\* the fallback without its floor: fileSizeMB * 15
fallbackVolume_NoFloor(f) == Mul(Div(I(f.size), I(BYTES_PER_MB)), I(15))

\* Math.max(0.1, fileSizeMB * 15)
fallbackVolume(f) ==
    LET fileSizeMB == Div(I(f.size), I(BYTES_PER_MB))
    IN  MathMax(Rat(1, 10), Mul(fileSizeMB, I(15)))

\* what calculateFileVolume returns once the parser has answered
volumeAfter(out, f) ==
    IF out.kind = "throw" THEN fallbackVolume(f)
    ELSE IF Falsy(out.v) \/ Le(out.v, I(0)) \/ ~isFinite(out.v) THEN fallbackVolume(f)
    ELSE out.v

calculateFileVolume(f) == volumeAfter(selectedParser(f), f)

-----------------------------------------------------------------------------
(* Estimate engine *)

\* the property names an object literal inherits from Object.prototype
InheritedNames ==
    {"constructor", "toString", "toLocaleString", "valueOf", "hasOwnProperty",
     "isPrototypeOf", "propertyIsEnumerable", "__proto__"}

\* MATERIAL_DENSITIES[material] || MATERIAL_DENSITIES.pla, in g/cm^3
\* (a name every object literal inherits looks up a function, which is truthy
\* and is not a number in arithmetic)
MATERIAL_DENSITIES(material) ==
    CASE material \in InheritedNames -> NaN
      [] material = "pla" -> Rat(124, 100)
      [] material = "petg" -> Rat(127, 100)
      [] material = "abs" -> Rat(104, 100)
      [] material = "tpu" -> Rat(120, 100)
      [] OTHER -> Rat(124, 100)

FILAMENT_RADIUS == Rat(175, 200)
STANDARD_LINE_WIDTH == Rat(4, 10)
STANDARD_PERIMETERS == 2
STANDARD_TOP_BOTTOM_LAYERS == 3
SPEED_PERIMETERS == 50
SPEED_INFILL == 60
SPEED_FIRST_LAYER == 20

\* the grams of one copy, whatever the quantity
estimateFilamentGrams_OneCopy(volumeCm3, s) ==
    IF Falsy(volumeCm3) \/ Le(volumeCm3, I(0)) \/ ~isFinite(volumeCm3) THEN I(0)
    ELSE LET density == MATERIAL_DENSITIES(s.material)
             volumeMm3 == Mul(volumeCm3, I(1000))
             estimatedHeight == MathMax(Rat(1, 10), MathCbrt(volumeMm3))
             estimatedBaseArea == MathMax(I(1), Div(volumeMm3, estimatedHeight))
             estimatedPerimeter == Mul(MathSqrt(estimatedBaseArea), I(4))
             perimeterVolume ==
                 Mul(Mul(Mul(estimatedPerimeter, estimatedHeight), STANDARD_LINE_WIDTH),
                     I(STANDARD_PERIMETERS))
             topBottomVolume ==
                 Mul(Mul(Mul(estimatedBaseArea, s.layerHeight),
                         I(STANDARD_TOP_BOTTOM_LAYERS)), I(2))
             shellVolume ==
                 MathMax(I(0), Div(Add(perimeterVolume, topBottomVolume), I(1000)))
             infillVolume ==
                 MathMax(I(0), Mul(Sub(volumeCm3, shellVolume), Div(s.infill, I(100))))
             totalMaterialVolume == Add(shellVolume, infillVolume)
             adjustedVolume == Mul(totalMaterialVolume, Rat(108, 100))
             grams == Mul(adjustedVolume, density)
         IN  MathMax(I(0), grams)

estimateFilamentGrams(volumeCm3, s) ==
    IF Falsy(volumeCm3) \/ Le(volumeCm3, I(0)) \/ ~isFinite(volumeCm3) THEN I(0)
    ELSE LET density == MATERIAL_DENSITIES(s.material)
             volumeMm3 == Mul(volumeCm3, I(1000))
             estimatedHeight == MathMax(Rat(1, 10), MathCbrt(volumeMm3))
             estimatedBaseArea == MathMax(I(1), Div(volumeMm3, estimatedHeight))
             estimatedPerimeter == Mul(MathSqrt(estimatedBaseArea), I(4))
             perimeterVolume ==
                 Mul(Mul(Mul(estimatedPerimeter, estimatedHeight), STANDARD_LINE_WIDTH),
                     I(STANDARD_PERIMETERS))
             topBottomVolume ==
                 Mul(Mul(Mul(estimatedBaseArea, s.layerHeight),
                         I(STANDARD_TOP_BOTTOM_LAYERS)), I(2))
             shellVolume ==
                 MathMax(I(0), Div(Add(perimeterVolume, topBottomVolume), I(1000)))
             infillVolume ==
                 MathMax(I(0), Mul(Sub(volumeCm3, shellVolume), Div(s.infill, I(100))))
             totalMaterialVolume == Add(shellVolume, infillVolume)
             adjustedVolume == Mul(totalMaterialVolume, Rat(108, 100))
             grams == Mul(Mul(adjustedVolume, density), s.quantity)
         IN  MathMax(I(0), grams)

estimateFilamentMeters(grams, material) ==
    LET density == MATERIAL_DENSITIES(material)
        volumeCm3 == Div(grams, density)
        volumeMm3 == Mul(volumeCm3, I(1000))
        crossSectionArea == Mul(MathPI, Mul(FILAMENT_RADIUS, FILAMENT_RADIUS))
        lengthMm == Div(volumeMm3, crossSectionArea)
    IN  Div(lengthMm, I(1000))

estimatePrintTime(volumeCm3, s) ==
    LET estimatedHeight == Mul(MathCbrt(Mul(volumeCm3, I(1000))), Rat(8, 10))
        layerCount == MathMax(I(1), MathCeil(Div(estimatedHeight, s.layerHeight)))
        baseArea == Div(Mul(volumeCm3, I(1000)), estimatedHeight)
        perimeterLength == Mul(Mul(MathSqrt(baseArea), I(4)), I(2))
        perimeterTime == Div(Mul(perimeterLength, layerCount), I(SPEED_PERIMETERS))
        infillArea == Mul(baseArea, Div(s.infill, I(100)))
        infillLength == Div(infillArea, Rat(4, 10))
        infillTime == Div(Mul(infillLength, layerCount), I(SPEED_INFILL))
        firstLayerTime == Div(perimeterLength, I(SPEED_FIRST_LAYER))
        layerChangeTime == Mul(layerCount, I(5))
        totalSeconds ==
            Add(Add(Add(perimeterTime, infillTime), firstLayerTime), layerChangeTime)
    IN  Mul(Mul(Div(totalSeconds, I(60)), Rat(12, 10)), s.quantity)

-----------------------------------------------------------------------------
(* Price calculator *)

\* a settings.speed that is absent (the field is optional)
NoString == "<undefined>"

BASE_RATE_PER_HOUR == 15
MINIMUM_CHARGE == 10
AVERAGE_SPEED_KMH == 40
DELIVERY_RATE_PER_HOUR == 25
MINIMUM_DELIVERY_FEE == 10

\* speedMultipliers[settings.speed || 'regular'] || 1.0, as the product with it
\* sees it: an inherited name looks up a function, truthy and not a number
speedMultiplier(speed) ==
    LET sp == IF speed = NoString \/ speed = "" THEN "regular" ELSE speed
    IN  CASE sp \in InheritedNames -> NaN
          [] sp = "instant" -> Rat(50, 10)
          [] sp = "fast" -> Rat(25, 10)
          [] sp = "regular" -> Rat(10, 10)
          [] OTHER -> Rat(10, 10)

\* the thresholds taken as strict (a discount only above 10, 5, 3)
getQuantityDiscount_Strict(qty) ==
    IF Lt(I(10), qty) THEN Rat(15, 100)
    ELSE IF Lt(I(5), qty) THEN Rat(10, 100)
    ELSE IF Lt(I(3), qty) THEN Rat(5, 100)
    ELSE I(0)

\* steeper discounts: 30%, 20% and 10%
getQuantityDiscount_Steep(qty) ==
    IF Le(I(10), qty) THEN Rat(30, 100)
    ELSE IF Le(I(5), qty) THEN Rat(20, 100)
    ELSE IF Le(I(3), qty) THEN Rat(10, 100)
    ELSE I(0)

getQuantityDiscount(qty) ==
    IF Le(I(10), qty) THEN Rat(15, 100)
    ELSE IF Le(I(5), qty) THEN Rat(10, 100)
    ELSE IF Le(I(3), qty) THEN Rat(5, 100)
    ELSE I(0)

\* the per-unit price after the minimum charge, before the quantity discount
priceWithMinimum(time, s) ==
    LET timeHours == Div(time, I(60))
        baseTimeCost == Mul(timeHours, I(BASE_RATE_PER_HOUR))
        pricePerUnit == Mul(baseTimeCost, speedMultiplier(s.speed))
    IN  MathMax(I(MINIMUM_CHARGE), pricePerUnit)

manufacturingPriceOf(time, s) ==
    LET quantityDiscount == getQuantityDiscount(s.quantity)
        discountedPricePerUnit ==
            Mul(priceWithMinimum(time, s), Sub(I(1), quantityDiscount))
    IN  Mul(discountedPricePerUnit, s.quantity)

\* the fee charged one way only
deliveryPriceOf_OneWay(s) ==
    IF s.delivery = "delivery" /\ s.deliveryDistance # Null
         /\ s.deliveryDistance # Undefined
    THEN MathMax(I(MINIMUM_DELIVERY_FEE),
                 Mul(Div(s.deliveryDistance, I(AVERAGE_SPEED_KMH)),
                     I(DELIVERY_RATE_PER_HOUR)))
    ELSE I(0)

deliveryPriceOf(s) ==
    IF s.delivery = "delivery" /\ s.deliveryDistance # Null
         /\ s.deliveryDistance # Undefined
    THEN LET travelTimeOneWay == Div(s.deliveryDistance, I(AVERAGE_SPEED_KMH))
             totalTravelTime == Mul(travelTimeOneWay, I(2))
             deliveryFee == Mul(totalTravelTime, I(DELIVERY_RATE_PER_HOUR))
         IN  MathMax(I(MINIMUM_DELIVERY_FEE), deliveryFee)
    ELSE I(0)

calculatePrice(time, s) ==
    LET manufacturingPrice == manufacturingPriceOf(time, s)
        deliveryPrice == deliveryPriceOf(s)
    IN  [totalPrice |-> Add(manufacturingPrice, deliveryPrice),
         manufacturingPrice |-> manufacturingPrice,
         deliveryPrice |-> deliveryPrice]

-----------------------------------------------------------------------------
(* calculateFileVolume and calculatePrintEstimate, step by step *)

NoParse == [kind |-> "none", v |-> NaN, err |-> ""]
NoResult ==
    [kind |-> "none", err |-> "", volume |-> NaN, filamentGrams |-> NaN,
     filamentMeters |-> NaN, estimatedTime |-> NaN, price |-> NaN,
     manufacturingPrice |-> NaN, deliveryPrice |-> NaN]
NoPrice == [totalPrice |-> NaN, manufacturingPrice |-> NaN, deliveryPrice |-> NaN]

\* OrderForm as it is mounted
NoForm == [selectedNeighborhood |-> "", deliveryAddress |-> "", estimate |-> NoResult,
           calculating |-> FALSE, submitting |-> FALSE, submitted |-> FALSE,
           contact |-> FALSE, orders |-> <<>>, events |-> 0]

extensionOf(f) == SplitPop(toLowerCase(f.name))

\* the switch on the extension
Dispatch ==
    /\ pc = "start"
    /\ pc' = CASE extensionOf(file) = EXT_STL -> "stl"
               [] extensionOf(file) = EXT_OBJ -> "obj"
               [] extensionOf(file) = EXT_3MF -> "3mf"
               [] OTHER -> "default"
    /\ UNCHANGED <<form, tasks, viewer>>
    /\ UNCHANGED <<file, settings, parsed, volume, filamentGrams, filamentMeters,
                   estimatedTime, priceBreakdown, result>>

ParseSTL ==
    /\ pc = "stl"
    /\ parsed' = calculateSTLVolume(file.data)
    /\ pc' = "parsed"
    /\ UNCHANGED <<form, tasks, viewer>>
    /\ UNCHANGED <<file, settings, volume, filamentGrams, filamentMeters,
                   estimatedTime, priceBreakdown, result>>

ParseOBJ ==
    /\ pc = "obj"
    /\ parsed' = calculateOBJVolume(file.data)
    /\ pc' = "parsed"
    /\ UNCHANGED <<form, tasks, viewer>>
    /\ UNCHANGED <<file, settings, volume, filamentGrams, filamentMeters,
                   estimatedTime, priceBreakdown, result>>

Parse3MF ==
    /\ pc = "3mf"
    /\ parsed' = calculate3MFVolume(file.data)
    /\ pc' = "parsed"
    /\ UNCHANGED <<form, tasks, viewer>>
    /\ UNCHANGED <<file, settings, volume, filamentGrams, filamentMeters,
                   estimatedTime, priceBreakdown, result>>

\* default: throw new Error(`Unsupported file format: ${extension}`)
Unsupported ==
    /\ pc = "default"
    /\ parsed' = Throw("Unsupported file format")
    /\ pc' = "parsed"
    /\ UNCHANGED <<form, tasks, viewer>>
    /\ UNCHANGED <<file, settings, volume, filamentGrams, filamentMeters,
                   estimatedTime, priceBreakdown, result>>

\* the validation after the switch, and the catch block
ReturnVolume ==
    /\ pc = "parsed"
    /\ volume' = volumeAfter(parsed, file)
    /\ pc' = "volume"
    /\ UNCHANGED <<form, tasks, viewer>>
    /\ UNCHANGED <<file, settings, parsed, filamentGrams, filamentMeters,
                   estimatedTime, priceBreakdown, result>>

\* Math.round(x * 10^p) / 10^p
RoundTo(x, scale) == Div(MathRound(Mul(x, I(scale))), I(scale))

\* the volume check at the head of calculatePrintEstimate
ValidateVolume ==
    /\ pc = "volume"
    /\ IF Falsy(volume) \/ Le(volume, I(0)) \/ ~isFinite(volume)
       THEN /\ result' = [NoResult EXCEPT !.kind = "throw",
                                          !.err = "Failed to calculate volume"]
            /\ pc' = "done"
       ELSE /\ pc' = "grams"
            /\ UNCHANGED result
    /\ UNCHANGED <<form, tasks, viewer>>
    /\ UNCHANGED <<file, settings, parsed, volume, filamentGrams, filamentMeters,
                   estimatedTime, priceBreakdown>>

EstimateFilament ==
    /\ pc = "grams"
    /\ filamentGrams' = estimateFilamentGrams(volume, settings)
    /\ filamentMeters' = estimateFilamentMeters(filamentGrams', settings.material)
    /\ pc' = "time"
    /\ UNCHANGED <<form, tasks, viewer>>
    /\ UNCHANGED <<file, settings, parsed, volume, estimatedTime, priceBreakdown,
                   result>>

EstimateTime ==
    /\ pc = "time"
    /\ estimatedTime' = estimatePrintTime(volume, settings)
    /\ pc' = "price"
    /\ UNCHANGED <<form, tasks, viewer>>
    /\ UNCHANGED <<file, settings, parsed, volume, filamentGrams, filamentMeters,
                   priceBreakdown, result>>

Price ==
    /\ pc = "price"
    /\ priceBreakdown' = calculatePrice(estimatedTime, settings)
    /\ pc' = "validate"
    /\ UNCHANGED <<form, tasks, viewer>>
    /\ UNCHANGED <<file, settings, parsed, volume, filamentGrams, filamentMeters,
                   estimatedTime, result>>

\* the record with the minutes kept to one decimal
Package_TimeOneDecimal(vol, grams, meters, time, pb) ==
    [kind |-> "estimate", err |-> "",
     volume |-> RoundTo(vol, 10),
     filamentGrams |-> RoundTo(grams, 10),
     filamentMeters |-> RoundTo(meters, 10),
     estimatedTime |-> RoundTo(time, 10),
     price |-> RoundTo(pb.totalPrice, 100),
     manufacturingPrice |-> RoundTo(pb.manufacturingPrice, 100),
     deliveryPrice |-> RoundTo(pb.deliveryPrice, 100)]

\* the record calculatePrintEstimate returns
Package(vol, grams, meters, time, pb) ==
    [kind |-> "estimate", err |-> "",
     volume |-> RoundTo(vol, 10),
     filamentGrams |-> RoundTo(grams, 10),
     filamentMeters |-> RoundTo(meters, 10),
     estimatedTime |-> MathRound(time),
     price |-> RoundTo(pb.totalPrice, 100),
     manufacturingPrice |-> RoundTo(pb.manufacturingPrice, 100),
     deliveryPrice |-> RoundTo(pb.deliveryPrice, 100)]

\* a validation of the filament figures only
ResultsFinite_FilamentOnly(grams, meters, time, pb) ==
    isFinite(grams) /\ isFinite(meters)

\* the validation before the return: every figure is finite
ResultsFinite(grams, meters, time, pb) ==
    /\ isFinite(grams) /\ isFinite(meters) /\ isFinite(time)
    /\ isFinite(pb.totalPrice) /\ isFinite(pb.manufacturingPrice)
    /\ isFinite(pb.deliveryPrice)

ValidateAndReturn ==
    /\ pc = "validate"
    /\ result' =
         IF ~ResultsFinite(filamentGrams, filamentMeters, estimatedTime, priceBreakdown)
         THEN [NoResult EXCEPT !.kind = "throw",
                               !.err = "Failed to calculate print estimate"]
         ELSE Package(volume, filamentGrams, filamentMeters, estimatedTime,
                      priceBreakdown)
    /\ pc' = "done"
    /\ UNCHANGED <<form, tasks, viewer>>
    /\ UNCHANGED <<file, settings, parsed, volume, filamentGrams, filamentMeters,
                   estimatedTime, priceBreakdown>>

-----------------------------------------------------------------------------
(* Inputs: files *)

Digits(n) == IF n < 10 THEN 1 ELSE IF n < 100 THEN 2 ELSE 3

OtherLine(w) == [t |-> "other", f |-> <<>>, w |-> w]
KeywordLine(t, w) == [t |-> t, f |-> <<>>, w |-> w]
\* "vertex x y z" and "v x y z"
VertexLine(x, y, z) ==
    [t |-> "vertex", f |-> <<I(x), I(y), I(z)>>,
     w |-> 9 + Digits(x) + Digits(y) + Digits(z)]
ObjV(x, y, z) ==
    [t |-> "v", f |-> <<I(x), I(y), I(z)>>, w |-> 4 + Digits(x) + Digits(y) + Digits(z)]
\* a line of a keyword and the numbers its fields parse to
FieldLine(t, f) == [t |-> t, f |-> f, w |-> 6 + 2 * Len(f)]
ObjF(idx) == [t |-> "f", f |-> [j \in 1..Len(idx) |-> I(idx[j])], w |-> 1 + 2 * Len(idx)]

RECURSIVE TextLen(_, _)
TextLen(lines, i) ==
    IF i > Len(lines) THEN 0
    ELSE lines[i].w + (IF i < Len(lines) THEN 1 ELSE 0) + TextLen(lines, i + 1)

\* the byte of a text at an offset: a line feed between lines, a printable
\* character inside one, -1 past the end
RECURSIVE TextByte(_, _, _, _)
TextByte(lines, i, start, offset) ==
    IF i > Len(lines) THEN -1
    ELSE IF offset < start + lines[i].w THEN 101
    ELSE IF offset = start + lines[i].w /\ i < Len(lines) THEN 10
    ELSE TextByte(lines, i + 1, start + lines[i].w + 1, offset)

Corner(x, y, z) == Vec(I(x), I(y), I(z))

\* the records a binary reader finds in bytes that are text: finite float32 values

Bytes(len, b80, count, tris) ==
    [len |-> len, b80 |-> IF len > 80 THEN b80 ELSE -1, count |-> count, tris |-> tris,
     lines |-> <<OtherLine(len)>>, isZip |-> FALSE, zip |-> <<>>]

Text(lines) ==
    LET len == TextLen(lines, 1)
    IN  [len |-> len, b80 |-> TextByte(lines, 1, 0, 80),
         count |-> IF len >= STL_HEADER THEN TextByte(lines, 1, 0, 80) + 256 * 101 ELSE 0,
         tris |-> IF len >= STL_HEADER
                  THEN [j \in 1..((len - STL_HEADER) \div STL_RECORD) |->
                          <<Corner(1, 0, 0), Corner(0, 1, 0), Corner(0, 0, 1)>>]
                  ELSE <<>>,
         lines |-> lines, isZip |-> FALSE, zip |-> <<>>]

Zip(len, entries) ==
    [len |-> len, b80 |-> 0, count |-> 0, tris |-> <<>>,
     lines |-> <<OtherLine(len)>>, isZip |-> TRUE, zip |-> entries]

\* the closed mesh of an axis-aligned cube of edge e with a corner at (o, o, o)
CubeCorners(o, e) ==
    <<Corner(o, o, o), Corner(o + e, o, o), Corner(o + e, o + e, o), Corner(o, o + e, o),
      Corner(o, o, o + e), Corner(o + e, o, o + e), Corner(o + e, o + e, o + e),
      Corner(o, o + e, o + e)>>
CubeIndex ==
    <<<<1, 3, 2>>, <<1, 4, 3>>, <<5, 6, 7>>, <<5, 7, 8>>, <<1, 2, 6>>, <<1, 6, 5>>,
      <<4, 8, 7>>, <<4, 7, 3>>, <<1, 5, 8>>, <<1, 8, 4>>, <<2, 3, 7>>, <<2, 7, 6>>>>
CubeTriangles(o, e) ==
    [j \in 1..12 |-> <<CubeCorners(o, e)[CubeIndex[j][1]],
                       CubeCorners(o, e)[CubeIndex[j][2]],
                       CubeCorners(o, e)[CubeIndex[j][3]]>>]

BinaryCube(o, e) == Bytes(STL_HEADER + 12 * STL_RECORD, 12, 12, CubeTriangles(o, e))

RECURSIVE FacetLines(_, _)
FacetLines(tris, j) ==
    IF j > Len(tris) THEN <<>>
    ELSE <<KeywordLine("facet", 18), KeywordLine("outer", 10),
           VertexLine(tris[j][1].x.n, tris[j][1].y.n, tris[j][1].z.n),
           VertexLine(tris[j][2].x.n, tris[j][2].y.n, tris[j][2].z.n),
           VertexLine(tris[j][3].x.n, tris[j][3].y.n, tris[j][3].z.n),
           KeywordLine("endloop", 7), KeywordLine("endfacet", 8)>>
         \o FacetLines(tris, j + 1)

AsciiSolid(tris) ==
    Text(<<KeywordLine("solid", 10)>> \o FacetLines(tris, 1)
         \o <<KeywordLine("endsolid", 13)>>)

ObjCube(o, e) ==
    Text([j \in 1..8 |-> ObjV(CubeCorners(o, e)[j].x.n, CubeCorners(o, e)[j].y.n,
                              CubeCorners(o, e)[j].z.n)]
         \o <<ObjF(<<1, 4, 3, 2>>), ObjF(<<5, 6, 7, 8>>), ObjF(<<1, 2, 6, 5>>),
              ObjF(<<4, 8, 7, 3>>), ObjF(<<1, 5, 8, 4>>), ObjF(<<2, 3, 7, 6>>)>>)

\* two triangles in 77 bytes of text
TwoTriangleFragment ==
    Text(<<VertexLine(0, 0, 0), VertexLine(9, 0, 0), VertexLine(0, 9, 0),
           VertexLine(0, 0, 9), VertexLine(0, 9, 9), VertexLine(9, 0, 9)>>)

NoDoc == [unit |-> NoUnit, ns |-> "", meshes |-> <<>>]
CubeMesh(prefix, ns, o, e) ==
    [prefix |-> prefix, ns |-> ns, hasVertices |-> TRUE, vertices |-> CubeCorners(o, e),
     hasTriangles |-> TRUE,
     triangles |-> [j \in 1..12 |-> <<I(CubeIndex[j][1] - 1), I(CubeIndex[j][2] - 1),
                                      I(CubeIndex[j][3] - 1)>>]]
ModelEntry(doc) ==
    [path |-> <<"3", "D", "/", "a", ".", "m", "o", "d", "e", "l">>, dir |-> FALSE,
     data |-> Bytes(500, 0, 0, <<>>), doc |-> doc]
LooseEntry(path, data) == [path |-> path, dir |-> FALSE, data |-> data, doc |-> NoDoc]
DirEntry == [path |-> <<"3", "D", "/">>, dir |-> TRUE, data |-> Bytes(0, 0, 0, <<>>),
             doc |-> NoDoc]

N_STL == <<"a", ".", "s", "t", "l">>
N_STL_UPPER == <<"A", ".", "S", "T", "L">>
N_OBJ == <<"a", ".", "O", "b", "j">>
N_3MF == <<"a", ".", "3", "m", "f">>
N_STEP == <<"a", ".", "s", "t", "e", "p">>

\* a vertex at +Infinity: parseFloat("Infinity")
ObjInfinite(n) ==
    Text(<<[t |-> "v", f |-> <<PInf, I(0), I(0)>>, w |-> 14]>>
         \o [j \in 1..n |-> ObjV(0, 1, 1)])

\* one triangle with a NaN coordinate
NaNTriangle ==
    Bytes(STL_HEADER + STL_RECORD, 1, 1,
          <<<<Corner(0, 0, 0), Vec(NaN, I(0), I(0)), Corner(0, 1, 0)>>>>)

\* a cube of edge 20000 micron
MicronModel ==
    [unit |-> U_MICRON, ns |-> CORE_NS, meshes |-> <<CubeMesh("", CORE_NS, 0, 20000)>>]

File(name, data) == [name |-> name, size |-> data.len, data |-> data]

\* no file selected (file === null)
NoFile == File(<<>>, Bytes(0, 0, 0, <<>>))

\* ModelViewer as it is mounted: loading, error; Model: mounted or not, its
\* instance, the file whose geometry it holds; what the last load to end
\* called, and the renders so far
NoViewer ==
    [loading |-> TRUE, error |-> FALSE, mounted |-> FALSE, instance |-> 0,
     geometry |-> NoFile, renders |-> 0,
     last |-> [cancelled |-> FALSE, settled |-> "none", called |-> "none"]]

Files ==
    {File(N_STL, d) : d \in {Bytes(0, 0, 0, <<>>), Bytes(82, 0, 0, <<>>),
                             Bytes(82, 65, 0, <<>>), Bytes(STL_HEADER, 0, 0, <<>>),
                             Bytes(BYTES_PER_MB, 0, 0, <<>>),
                             Bytes(3 * BYTES_PER_MB, 65, 65, <<>>),
                             BinaryCube(0, 10), NaNTriangle, TwoTriangleFragment,
                             AsciiSolid(CubeTriangles(0, 10)), ObjCube(0, 20)}}
    \cup {File(N_STL_UPPER, BinaryCube(5, 30)),
          File(<<"s", "t", "l">>, BinaryCube(0, 20))}
    \cup {File(N_OBJ, d) : d \in {ObjCube(0, 20), ObjCube(10, 60), ObjInfinite(0),
                                  ObjInfinite(1),
                                  Text(<<ObjV(0, 0, 0), ObjV(10, 20, 30)>>),
                                  Text(<<ObjF(<<1, 2, 3>>), OtherLine(5)>>),
                                  BinaryCube(0, 10)}}
    \cup {File(N_3MF, d) : d \in
            {Zip(1000, <<>>),
             Zip(1000, <<DirEntry, ModelEntry(MicronModel)>>),
             Zip(3 * BYTES_PER_MB, <<ModelEntry(NoDoc)>>),
             Zip(1000, <<LooseEntry(N_STL_UPPER, BinaryCube(0, 10))>>),
             Zip(1000, <<LooseEntry(N_OBJ, ObjCube(0, 10))>>),
             BinaryCube(0, 10)}}
    \cup {File(N_STEP, Bytes(BYTES_PER_MB, 0, 0, <<>>)),
          File(N_STEP, Bytes(0, 0, 0, <<>>)),
          File(<<"a", ".", "s", "t", "l", ".", "z", "i", "p">>, BinaryCube(0, 10)),
          File(<<"a", ".">>, BinaryCube(0, 10))}

-----------------------------------------------------------------------------
(* calculatePrice on its own: every time and every setting it reads *)

MaxQuantity == 11

PriceTimes == {I(0), Rat(1, 2), I(7), I(8), Rat(33, 2), I(40), Rat(401, 10), I(600)}

PriceSettings ==
    {[material |-> "pla", infill |-> I(25), layerHeight |-> Rat(2, 10),
      quantity |-> I(q), speed |-> sp, delivery |-> dl, deliveryDistance |-> dd] :
        q \in 1..MaxQuantity,
        sp \in {"instant", "fast", "regular", "", NoString, "overnight", "toString"},
        dl \in {"pickup", "delivery", NoString},
        dd \in {Null, Undefined, I(0), I(5), I(8), Rat(81, 10), I(20), Rat(67, 2)}}

InitPrice ==
    /\ file = File(<<>>, Bytes(0, 0, 0, <<>>))
    /\ settings \in PriceSettings
    /\ pc = "price"
    /\ parsed = NoParse
    /\ volume = NaN
    /\ filamentGrams = NaN
    /\ filamentMeters = NaN
    /\ estimatedTime \in PriceTimes
    /\ priceBreakdown = NoPrice
    /\ result = NoResult
    /\ form = NoForm
    /\ tasks = <<>>
    /\ viewer = NoViewer

SpecPrice == InitPrice /\ [][Price]_vars

Priced == pc = "validate"
Supplied(s) ==
    s.delivery = "delivery" /\ s.deliveryDistance \notin {Null, Undefined}

\* C8: the delivery price is exactly 0 unless the mode is "delivery" and a
\* distance is supplied; with a distance d it is max(10, 2 * (d / 40) * 25),
\* which is 25 at d = 20 and 10 for every d <= 8.
C8_DeliveryRule ==
    Priced =>
      LET d == settings.deliveryDistance
          p == priceBreakdown.deliveryPrice
      IN  /\ ~Supplied(settings) => p = I(0)
          /\ Supplied(settings) =>
               /\ p = MathMax(I(10), Mul(Mul(I(2), Div(d, I(40))), I(25)))
               /\ d = I(20) => p = I(25)
               /\ Le(d, I(8)) => p = I(10)

C8_Witness ==
    /\ Priced /\ Supplied(settings)
    /\ settings.deliveryDistance = I(20)
    /\ priceBreakdown.deliveryPrice = I(25)

\* C9: for a time and a speed class (instant 5, fast 2.5, any other 1),
\* manufacturingPrice = quantity * (1 - d(quantity)) * max(10, hours * 15 *
\* speedMultiplier), d = 0.15 from 10 units, 0.10 for 5..9, 0.05 for 3..4 and 0
\* for 1..2; so the price for 10 units is 10 * 0.85 times the price for 1 unit.
C9_QuantityDiscount ==
    (Priced /\ settings.speed \notin InheritedNames) =>
      LET q == settings.quantity.n
          disc == IF q >= 10 THEN Rat(15, 100)
                  ELSE IF q >= 5 THEN Rat(10, 100)
                  ELSE IF q >= 3 THEN Rat(5, 100) ELSE I(0)
          mult == IF settings.speed = "instant" THEN I(5)
                  ELSE IF settings.speed = "fast" THEN Rat(5, 2) ELSE I(1)
          base == MathMax(I(10), Mul(Mul(Div(estimatedTime, I(60)), I(15)), mult))
          one == manufacturingPriceOf(estimatedTime, [settings EXCEPT !.quantity = I(1)])
          m == priceBreakdown.manufacturingPrice
      IN  /\ m = Mul(Mul(I(q), Sub(I(1), disc)), base)
          /\ q = 10 => m = Mul(Mul(I(10), Rat(85, 100)), one)

C9_Witness ==
    /\ Priced
    /\ settings.quantity = I(10) /\ settings.speed = "fast"
    /\ estimatedTime = I(600)
    /\ priceBreakdown.manufacturingPrice = Rat(6375, 2)

\* C10: for every finite time >= 0, every speed value (instant, fast, regular,
\* missing or unknown) and every integer quantity >= 1 the manufacturing price
\* is at least 10.
C10_MinimumCharge ==
    (/\ Priced
     /\ isFinite(estimatedTime) /\ Le(I(0), estimatedTime)
     /\ settings.quantity.d = 1 /\ settings.quantity.n >= 1)
      => Le(I(10), priceBreakdown.manufacturingPrice)

-----------------------------------------------------------------------------
(* calculateSTLVolume on its own: every buffer below the binary header size, *)
(* and some above it                                                         *)

\* the form's initial settings
DefaultSettings ==
    [material |-> "pla", infill |-> I(25), layerHeight |-> Rat(2, 10),
     quantity |-> I(1), speed |-> "regular", delivery |-> "pickup",
     deliveryDistance |-> Null]

\* bytes that decode to no "vertex" line
ShortBuffers ==
    {Bytes(len, b, 0, <<>>) : len \in 0..(STL_HEADER - 1),
                             b \in {0, 10, 31, 32, 65, 126, 127, 255}}

\* 82 bytes of text, a printable character at offset 80
FragmentPrintable == Text(TwoTriangleFragment.lines \o <<OtherLine(4)>>)
\* 82 bytes of text, a line feed at offset 80
FragmentLineFeed == Text(TwoTriangleFragment.lines \o <<OtherLine(2), OtherLine(1)>>)

MaxRecords == 6
MaxStlLines == 5

\* with them, binary buffers of up to MaxRecords whole triangle records of the
\* cube, followed by 0, 1 or 49 bytes, that declare fewer, as many or more
\* triangles than they hold; and every text of up to MaxStlLines lines that
\* each are a vertex line (its coordinates set by its position), a vertex line
\* of two fields, a vertex line with an unparseable field, "endfacet" or
\* "endsolid"
StlBuffers ==
    LET Line(kind, i) ==
            CASE kind = "vertex" -> VertexLine(i, (i * i) % 5, (3 * i) % 4)
              [] kind = "short" -> FieldLine("vertex", <<I(i), I(1)>>)
              [] kind = "nan" -> FieldLine("vertex", <<I(i), NaN, I(2)>>)
              [] OTHER -> KeywordLine(kind, 8)
        kinds == {"vertex", "short", "nan", "endfacet", "endsolid"}
    IN
    {Text([i \in 1..Len(ks) |-> Line(ks[i], i)]) :
        ks \in UNION {[1..n -> kinds] : n \in 1..MaxStlLines}}
    \cup
    ShortBuffers
    \cup {TwoTriangleFragment, FragmentPrintable, FragmentLineFeed}
    \cup {Bytes(STL_HEADER, 0, 0, <<>>), Bytes(STL_HEADER, 65, 65, <<>>),
          BinaryCube(0, 10), NaNTriangle, AsciiSolid(CubeTriangles(0, 10))}
    \cup {Bytes(STL_HEADER + n * STL_RECORD + rest, count % 256, count,
                [j \in 1..n |-> CubeTriangles(0, 10)[((j - 1) % 12) + 1]]) :
             n \in 0..MaxRecords, rest \in {0, 1, STL_RECORD - 1},
             count \in {0, 1, 2, 5, MaxRecords, MaxRecords + 1, 65535}}

InitSTL ==
    /\ file \in {File(N_STL, d) : d \in StlBuffers}
    /\ settings = DefaultSettings
    /\ pc = "stl"
    /\ parsed = NoParse
    /\ volume = NaN
    /\ filamentGrams = NaN
    /\ filamentMeters = NaN
    /\ estimatedTime = NaN
    /\ priceBreakdown = NoPrice
    /\ result = NoResult
    /\ form = NoForm
    /\ tasks = <<>>
    /\ viewer = NoViewer

SpecSTL == InitSTL /\ [][ParseSTL]_vars

TooShort == Throw("Invalid STL file: too short")

\* C3: of the buffers shorter than 84 bytes, calculateSTLVolume fails with
\* "too short" exactly on those of 81 to 83 bytes whose byte at offset 80 is
\* outside 32..126; on every other one it reads the bytes as text and returns
\* a volume.
C3_TooShort ==
    (pc = "parsed" /\ file.data.len < 84) =>
      IF file.data.len > 80 /\ (file.data.b80 < 32 \/ file.data.b80 > 126)
      THEN parsed = TooShort
      ELSE parsed.kind = "ok"

C3_Witness ==
    /\ pc = "parsed"
    /\ file.data.len = 82 /\ file.data.b80 = 0
    /\ parsed = TooShort

\* C3 as stated: every buffer shorter than 84 bytes fails with "too short"
C3_AlwaysTooShort ==
    (pc = "parsed" /\ file.data.len < 84) => parsed = TooShort

-----------------------------------------------------------------------------
(* calculateOBJVolume on its own: every text of up to MaxLines lines *)

MaxLines == 3

ObjLines ==
    {ObjV(0, 0, 0), ObjV(10, 20, 30),
     FieldLine("v", <<I(1), I(2)>>), FieldLine("v", <<I(1), NaN, I(3)>>),
     FieldLine("vn", <<I(0), I(0), I(1)>>),
     ObjF(<<1, 2, 3>>), ObjF(<<2, 5, 7>>), OtherLine(5)}

ObjTexts ==
    UNION {{Text(lines) : lines \in [1..n -> ObjLines]} : n \in 1..MaxLines}

InitOBJ ==
    /\ file \in {File(N_OBJ, d) : d \in ObjTexts \cup {ObjCube(0, 20), ObjInfinite(1)}}
    /\ settings = DefaultSettings
    /\ pc = "obj"
    /\ parsed = NoParse
    /\ volume = NaN
    /\ filamentGrams = NaN
    /\ filamentMeters = NaN
    /\ estimatedTime = NaN
    /\ priceBreakdown = NoPrice
    /\ result = NoResult
    /\ form = NoForm
    /\ tasks = <<>>
    /\ viewer = NoViewer

SpecOBJ == InitOBJ /\ [][ParseOBJ]_vars

\* the lines that start with "v " and have three numeric fields
ValidVertexLines(lines) ==
    {i \in 1..Len(lines) :
        /\ lines[i].t = "v" /\ Len(lines[i].f) >= 3
        /\ \A j \in 1..3 : lines[i].f[j].k # "nan"}

\* C4: calculateOBJVolume fails with "No vertices found" exactly when no line
\* gives a valid vertex; with at least one valid vertex it returns a number,
\* whatever the face lines are.
C4_NoGeometry ==
    pc = "parsed" =>
      IF ValidVertexLines(file.data.lines) = {}
      THEN parsed = Throw("No vertices found in OBJ file")
      ELSE parsed.kind = "ok"

C4_Witness ==
    /\ pc = "parsed" /\ parsed.kind = "ok"
    /\ Cardinality(ValidVertexLines(file.data.lines)) = 1
    /\ \E i \in 1..Len(file.data.lines) : file.data.lines[i].t = "f"

-----------------------------------------------------------------------------
(* calculatePrintEstimate on files and settings *)

MaxUnits == 2

Settings ==
    {[material |-> mt, infill |-> I(25), layerHeight |-> lh, quantity |-> I(q),
      speed |-> sp, delivery |-> dv[1], deliveryDistance |-> dv[2]] :
        mt \in {"pla", "abs"},
        lh \in {Rat(2, 10), Rat(12, 100), I(0), NaN},
        q \in 1..MaxUnits,
        sp \in {"regular", "instant"},
        dv \in {<<"pickup", Null>>, <<"delivery", Null>>,
                <<"delivery", Rat(19, 2)>>}}

Init ==
    /\ file \in Files
    /\ settings \in Settings
    /\ pc = "start"
    /\ parsed = NoParse
    /\ volume = NaN
    /\ filamentGrams = NaN
    /\ filamentMeters = NaN
    /\ estimatedTime = NaN
    /\ priceBreakdown = NoPrice
    /\ result = NoResult
    /\ form = NoForm
    /\ tasks = <<>>
    /\ viewer = NoViewer

Next ==
    \/ Dispatch
    \/ ParseSTL
    \/ ParseOBJ
    \/ Parse3MF
    \/ Unsupported
    \/ ReturnVolume
    \/ ValidateVolume
    \/ EstimateFilament
    \/ EstimateTime
    \/ Price
    \/ ValidateAndReturn

Spec == Init /\ [][Next]_vars

Returned == pc = "done" /\ result.kind = "estimate"
Failed == pc = "done" /\ result.kind = "throw"

\* the parser has answered and calculateFileVolume has returned
VolumeReturned == pc \in {"volume", "grams", "time", "price", "validate", "done"}

\* the parser threw, or gave a volume that is zero, negative or not finite
ParserRejected ==
    \/ parsed.kind = "throw"
    \/ Falsy(parsed.v) \/ Le(parsed.v, I(0)) \/ ~isFinite(parsed.v)

C2_UnsupportedIsFatal ==
    (pc = "done" /\ extensionOf(file) \notin {EXT_STL, EXT_OBJ, EXT_3MF})
      => result.kind = "throw"

Nearest(r, x, scale) ==
    /\ isFinite(r) /\ Mul(r, I(scale)).d = 1
    /\ Le(Mul(MathAbs(Sub(r, x)), I(2 * scale)), I(1))

C7_TotalIsSum ==
    Returned => result.price = Add(result.manufacturingPrice, result.deliveryPrice)

-----------------------------------------------------------------------------
(* estimateFilamentGrams and estimateFilamentMeters on their own *)

InitGrams ==
    /\ file = File(<<>>, Bytes(0, 0, 0, <<>>))
    /\ settings \in
         {[material |-> mt, infill |-> inf, layerHeight |-> lh, quantity |-> I(q),
           speed |-> "regular", delivery |-> "pickup", deliveryDistance |-> Null] :
             mt \in {"pla", "petg", "tpu", "nylon"},
             inf \in {I(0), I(25), I(100)},
             lh \in {Rat(1, 10), Rat(2, 10), Rat(3, 10)},
             q \in 1..MaxQuantity}
    /\ pc = "grams"
    /\ parsed = NoParse
    /\ volume \in {Rat(1, 10), I(1), I(8), I(27)}
    /\ filamentGrams = NaN
    /\ filamentMeters = NaN
    /\ estimatedTime = NaN
    /\ priceBreakdown = NoPrice
    /\ result = NoResult
    /\ form = NoForm
    /\ tasks = <<>>
    /\ viewer = NoViewer

SpecGrams == InitGrams /\ [][EstimateFilament]_vars

\* C11: for a fixed positive volume, material, infill and layer height, the
\* grams for quantity q are q times the grams for quantity 1.
C11_GramsLinearInQuantity ==
    pc = "time" =>
      filamentGrams =
        Mul(settings.quantity,
            estimateFilamentGrams(volume, [settings EXCEPT !.quantity = I(1)]))

C11_Witness ==
    /\ pc = "time"
    /\ settings.quantity = I(7) /\ volume = I(8) /\ settings.infill = I(25)
    /\ settings.material = "petg" /\ settings.layerHeight = Rat(2, 10)
    /\ Lt(I(0), filamentGrams)

-----------------------------------------------------------------------------------------------------------------------------------------------------
(* The parsers on meshes: the 10 mm cube and other solids, in every encoding, *)
(* placed anywhere                                                            *)

Vectors ==
    {Vec(a, b, c) : a \in {I(0), I(-7), Rat(1, 2)}, b \in {I(0), I(13)},
                    c \in {I(0), I(-20), Rat(5, 4)}}

\* a text is more than one line; bytes that are no text are kept as one
IsText(data) == Len(data.lines) > 1

\* the file with every vertex moved by d: the records of a binary STL, the
\* vertex lines of a text (whose layout stays as it is), the vertex elements of
\* the model documents of an archive
Translated(data, d) ==
    LET Moved(v) == Vec(Add(v.x, d.x), Add(v.y, d.y), Add(v.z, d.z))
        MovedLine(l) ==
            IF l.t \in {"vertex", "v"} /\ Len(l.f) = 3
            THEN [l EXCEPT !.f = <<Add(l.f[1], d.x), Add(l.f[2], d.y), Add(l.f[3], d.z)>>]
            ELSE l
        MovedMesh(m) == [m EXCEPT !.vertices = [k \in 1..Len(m.vertices) |->
                                                   Moved(m.vertices[k])]]
        MovedEntry(e) == [e EXCEPT !.doc.meshes = [k \in 1..Len(e.doc.meshes) |->
                                                      MovedMesh(e.doc.meshes[k])]]
    IN  IF data.isZip
        THEN [data EXCEPT !.zip = [j \in 1..Len(data.zip) |-> MovedEntry(data.zip[j])]]
        ELSE IF IsText(data)
        THEN [data EXCEPT !.lines = [j \in 1..Len(data.lines) |->
                                        MovedLine(data.lines[j])]]
        ELSE [data EXCEPT !.tris = [j \in 1..Len(data.tris) |->
                                       [k \in 1..3 |-> Moved(data.tris[j][k])]]]

\* the cube is in the files named a.stl: binary, and ASCII after a
\* "solid <name>" line of 5 to 24 characters; the files named A.STL hold a
\* tetrahedron and the cube less one face; the OBJ files hold the cube with
\* square faces, a prism with two triangles and three rectangles, and the
\* tetrahedron; the 3MF files hold the cube, in millimeters and in other units
InitMesh ==
    LET AsciiNamed(tris, w) ==
            Text(<<KeywordLine("solid", w)>> \o FacetLines(tris, 1)
                 \o <<KeywordLine("endsolid", w + 3)>>)
        Binary(tris) ==
            Bytes(STL_HEADER + Len(tris) * STL_RECORD, Len(tris), Len(tris), tris)
        tetra == <<<<Corner(0, 0, 0), Corner(0, 6, 0), Corner(6, 0, 0)>>,
                   <<Corner(0, 0, 0), Corner(6, 0, 0), Corner(0, 0, 6)>>,
                   <<Corner(0, 0, 0), Corner(0, 0, 6), Corner(0, 6, 0)>>,
                   <<Corner(6, 0, 0), Corner(0, 6, 0), Corner(0, 0, 6)>>>>
        open == SubSeq(CubeTriangles(0, 10), 1, 10)
        cubes == {BinaryCube(0, 10)}
                 \cup {AsciiNamed(CubeTriangles(0, 10), w) : w \in 5..24}
        others == {Binary(tetra), AsciiNamed(tetra, 10), Binary(open),
                   AsciiNamed(open, 10)}
        objs == {ObjCube(0, 10),
                 Text(<<ObjV(0, 0, 0), ObjV(6, 0, 0), ObjV(0, 3, 0), ObjV(0, 0, 9),
                        ObjV(6, 0, 9), ObjV(0, 3, 9), ObjF(<<1, 3, 2>>),
                        ObjF(<<4, 5, 6>>), ObjF(<<1, 2, 5, 4>>), ObjF(<<1, 4, 6, 3>>),
                        ObjF(<<2, 3, 6, 5>>)>>),
                 Text(<<ObjV(0, 0, 0), ObjV(6, 0, 0), ObjV(0, 6, 0), ObjV(0, 0, 6),
                        ObjF(<<1, 3, 2>>), ObjF(<<1, 2, 4>>), ObjF(<<1, 4, 3>>),
                        ObjF(<<2, 3, 4>>)>>)}
        models == {Zip(1000, <<ModelEntry([unit |-> U_MILLIMETER, ns |-> CORE_NS,
                                           meshes |-> <<CubeMesh("", CORE_NS, 0, 10)>>])>>)}
        \* the cube in a unit of f millimeters: its coordinates are those of the
        \* millimeter cube divided by f
        InUnit(unit, f) ==
            LET cube == CubeMesh("", CORE_NS, 0, 10)
                Shrunk(v) == Vec(Div(v.x, f), Div(v.y, f), Div(v.z, f))
            IN  Zip(1000, <<ModelEntry(
                    [unit |-> unit, ns |-> CORE_NS,
                     meshes |-> <<[cube EXCEPT !.vertices =
                                     [k \in 1..8 |-> Shrunk(cube.vertices[k])]]>>])>>)
        units == {InUnit(<<"m", "e", "t", "e", "r">>, I(1000)),
                  InUnit(<<"M", "e", "t", "e", "r">>, I(1000)),
                  InUnit(<<"i", "n", "c", "h">>, Rat(254, 10)),
                  InUnit(<<"f", "o", "o", "t">>, Rat(3048, 10)),
                  InUnit(U_MICRON, Rat(1, 1000)),
                  InUnit(NoUnit, I(1)),
                  InUnit(<<"c", "e", "n", "t", "i", "m", "e", "t", "e", "r">>, I(1)),
                  InUnit(<<"c", "o", "n", "s", "t", "r", "u", "c", "t", "o", "r">>, I(1))}
    IN  /\ file \in
             {File(N_STL, Translated(c, d)) : c \in cubes, d \in Vectors}
             \cup {File(N_STL_UPPER, Translated(o, d)) : o \in others, d \in Vectors}
             \cup {File(N_OBJ, Translated(o, d)) : o \in objs, d \in Vectors}
             \cup {File(N_3MF, Translated(m, d)) : m \in models, d \in Vectors}
             \cup {File(N_3MF, m) : m \in units}
        /\ settings = DefaultSettings
        /\ pc = CASE extensionOf(file) = EXT_STL -> "stl"
                  [] extensionOf(file) = EXT_OBJ -> "obj"
                  [] OTHER -> "3mf"
        /\ parsed = NoParse
        /\ volume = NaN
        /\ filamentGrams = NaN
        /\ filamentMeters = NaN
        /\ estimatedTime = NaN
        /\ priceBreakdown = NoPrice
        /\ result = NoResult
        /\ form = NoForm
        /\ tasks = <<>>
        /\ viewer = NoViewer

SpecMesh == InitMesh /\ [][ParseSTL \/ ParseOBJ \/ Parse3MF]_vars

\* C12: the 12-triangle mesh of a 10 mm cube, placed anywhere, has volume 1.0
\* cm3 in parseBinarySTL when encoded as binary STL and in parseASCIISTL when
\* encoded as ASCII STL; calculateSTLVolume returns that 1.0 for the binary
\* file, and for the ASCII file when the byte at offset 80 of the text is
\* printable.
C12_CubeVolume ==
    (pc = "parsed" /\ file.name = N_STL) =>
      /\ IsText(file.data) => parseASCIISTL(file.data) = Ok(I(1))
      /\ ~IsText(file.data) => parseBinarySTL(file.data) = Ok(I(1))
      /\ (~IsText(file.data) \/ file.data.b80 \in 32..126) => parsed = Ok(I(1))

C12_Witness ==
    /\ pc = "parsed" /\ file.name = N_STL
    /\ IsText(file.data) /\ file.data.b80 = 101
    /\ file.data.lines[4].f = <<Rat(1, 2), I(13), Rat(5, 4)>>
    /\ parsed = Ok(I(1))

\* C12 as stated: whatever the encoding of the cube, calculateSTLVolume
\* returns 1.0
C12_AnyEncoding == (pc = "parsed" /\ file.name = N_STL) => parsed = Ok(I(1))

\* the parser a file of SpecMesh is given to, and what it gives
ParserOf(f, data) ==
    CASE extensionOf(f) = EXT_STL -> calculateSTLVolume(data)
      [] extensionOf(f) = EXT_OBJ -> calculateOBJVolume(data)
      [] OTHER -> calculate3MFVolume(data)

\* the bytes are read as what they are: a text as text, a binary STL as binary
ReadAsWritten(f) ==
    extensionOf(f) = EXT_STL => (IsText(f.data) <=> ~isBinary(f.data))

Reversed(data, S) ==
    LET Rev(q) == [k \in 1..Len(q) |-> q[Len(q) + 1 - k]]
        \* the number of lines of kind t among lines 1 .. i
        Rank(t, i) == Cardinality({k \in 1..i : data.lines[k].t = t})
        \* the line that holds the n-th line of kind t
        Nth(t, n) == CHOOSE i \in 1..Len(data.lines) :
                         data.lines[i].t = t /\ Rank(t, i) = n
        NewLine(i) ==
            LET l == data.lines[i]
                n == Rank(l.t, i)
            IN  IF l.t = "f" /\ n \in S THEN [l EXCEPT !.f = Rev(l.f)]
                ELSE IF l.t = "vertex" /\ ((n + 2) \div 3) \in S /\ n % 3 = 2
                          /\ Rank("vertex", Len(data.lines)) > n
                THEN data.lines[Nth("vertex", n + 1)]
                ELSE IF l.t = "vertex" /\ ((n + 2) \div 3) \in S /\ n % 3 = 0
                THEN data.lines[Nth("vertex", n - 1)]
                ELSE l
        NewMesh(m) == [m EXCEPT !.triangles =
                         [j \in 1..Len(m.triangles) |->
                             IF j \in S
                             THEN <<m.triangles[j][1], m.triangles[j][3], m.triangles[j][2]>>
                             ELSE m.triangles[j]]]
        NewEntry(e) == [e EXCEPT !.doc.meshes = [k \in 1..Len(e.doc.meshes) |->
                                                    NewMesh(e.doc.meshes[k])]]
    IN  IF data.isZip
        THEN [data EXCEPT !.zip = [j \in 1..Len(data.zip) |-> NewEntry(data.zip[j])]]
        ELSE IF IsText(data)
        THEN [data EXCEPT !.lines = [i \in 1..Len(data.lines) |-> NewLine(i)]]
        ELSE [data EXCEPT !.tris =
                [j \in 1..Len(data.tris) |->
                    IF j \in S
                    THEN <<data.tris[j][1], data.tris[j][3], data.tris[j][2]>>
                    ELSE data.tris[j]]]

RECURSIVE TriangulatedByHand(_, _)
TriangulatedByHand(lines, k) ==
    IF k = 0 THEN <<>>
    ELSE LET v == SelectSeq(lines, LAMBDA l : l.t = "v")
             f == SelectSeq(lines, LAMBDA l : l.t = "f")[k].f
             At(i) == Vec(v[f[i].n].f[1], v[f[i].n].f[2], v[f[i].n].f[3])
         IN  TriangulatedByHand(lines, k - 1)
             \o [i \in 1..(Len(f) - 2) |-> <<At(1), At(i + 1), At(i + 2)>>]

UnitOf(f) == f.data.zip[1].doc.unit

\* the unit table: the millimeters in a unit, 1 for any unit not in the table
TableFactor(unit) ==
    CASE toLowerCase(unit) = <<"m", "e", "t", "e", "r">> -> I(1000)
      [] toLowerCase(unit) = <<"i", "n", "c", "h">> -> Rat(254, 10)
      [] toLowerCase(unit) = <<"f", "o", "o", "t">> -> Rat(3048, 10)
      [] toLowerCase(unit) = <<"m", "i", "c", "r", "o", "n">> -> Rat(1, 1000)
      [] OTHER -> I(1)

\* the archive converted to millimeters by hand: every coordinate times the
\* factor of the table, the unit attribute "millimeter"
InMillimeters(data) ==
    LET f == TableFactor(data.zip[1].doc.unit)
        Scaled(m) == [m EXCEPT !.vertices =
                        [k \in 1..Len(m.vertices) |->
                            Vec(Mul(m.vertices[k].x, f), Mul(m.vertices[k].y, f),
                                Mul(m.vertices[k].z, f))]]
        doc == data.zip[1].doc
    IN  [data EXCEPT !.zip[1].doc =
            [doc EXCEPT !.unit = U_MILLIMETER,
                        !.meshes = [k \in 1..Len(doc.meshes) |-> Scaled(doc.meshes[k])]]]

\* a unit attribute that names a property every object literal inherits
InheritedUnit(unit) ==
    toLowerCase(unit) \in {<<"c", "o", "n", "s", "t", "r", "u", "c", "t", "o", "r">>,
                           <<"_", "_", "p", "r", "o", "t", "o", "_", "_">>}

\* C16, for the units that are no inherited property name: every coordinate is
\* multiplied by the factor of the unit (meter 1000, millimeter 1, inch 25.4,
\* foot 304.8, micron 0.001, any other or absent unit 1), so the model has the
\* volume of the millimeter model with the converted coordinates; the cube
\* given in meters, coordinates divided by 1000, has the 1.0 cm3 of the
\* millimeter cube.
C16_UnitConversion ==
    (pc = "parsed" /\ extensionOf(file) = EXT_3MF /\ ~InheritedUnit(UnitOf(file))) =>
      /\ parsed = calculate3MFVolume(InMillimeters(file.data))
      /\ TableFactor(UnitOf(file)) # I(1) => parsed = Ok(I(1))

C16_Witness ==
    /\ pc = "parsed" /\ extensionOf(file) = EXT_3MF
    /\ UnitOf(file) = <<"m", "e", "t", "e", "r">>
    /\ file.data.zip[1].doc.meshes[1].vertices[7] = Vec(Rat(1, 100), Rat(1, 100), Rat(1, 100))
    /\ parsed = Ok(I(1))

\* C16 as stated: whatever the unit attribute is, the coordinates are
\* multiplied by the factor of the table, 1 for any unit not in it
C16_AnyUnit ==
    (pc = "parsed" /\ extensionOf(file) = EXT_3MF) =>
      parsed = calculate3MFVolume(InMillimeters(file.data))

-----------------------------------------------------------------------------
(* calculate3MFVolume on archives *)

MaxEntries == 3

\* the archives: every sequence of up to MaxEntries entries of seven kinds (a
\* directory, two model documents with cubes of 10 and 40 mm, the second under
\* an upper-case name, a binary STL with a cube of 20 mm, an OBJ with a cube of
\* 30 mm, two entries of no use); a model entry with a cube under each
\* combination of root namespace, mesh prefix and mesh namespace; a model entry
\* without a locatable mesh next to entries holding an STL or OBJ; a model
\* entry of one or two meshes with vertex and triangle children that are
\* unparseable, missing an index or out of range
Init3MF ==
    LET doc(ns, meshes) == [unit |-> U_MILLIMETER, ns |-> ns, meshes |-> meshes]
        OLD_NS == "http://schemas.microsoft.com/3dmanufacturing/core/2013/01"
        \* a vertex child put before child p of a mesh, the indices of the
        \* children after it raised by shift
        WithVertex(mesh, p, v, shift) ==
            [mesh EXCEPT
                !.vertices = SubSeq(@, 1, p) \o <<v>> \o SubSeq(@, p + 1, Len(@)),
                !.triangles = [j \in 1..Len(@) |->
                    [i \in 1..3 |-> IF @[j][i].n >= p THEN I(@[j][i].n + shift)
                                    ELSE @[j][i]]]]
        \* a triangle child put after triangle p of a mesh
        WithTriangle(mesh, p, t) ==
            [mesh EXCEPT !.triangles = SubSeq(@, 1, p) \o <<t>> \o SubSeq(@, p + 1, Len(@))]
        cube == CubeMesh("", CORE_NS, 0, 10)
        stl == LooseEntry(N_STL_UPPER, BinaryCube(0, 20))
        obj == LooseEntry(N_OBJ, ObjCube(0, 30))
        kinds == {DirEntry, ModelEntry(doc(CORE_NS, <<cube>>)),
                  [ModelEntry(doc(CORE_NS, <<CubeMesh("", CORE_NS, 0, 40)>>))
                      EXCEPT !.path = <<"B", ".", "M", "O", "D", "E", "L">>],
                  stl, obj,
                  LooseEntry(<<"a", ".", "m", "o", "d", "e", "l", "s">>, Bytes(10, 0, 0, <<>>)),
                  LooseEntry(<<"s", "t", "l">>, BinaryCube(0, 10))}
        orders == UNION {[1..n -> kinds] : n \in 0..MaxEntries}
        spaces == {CORE_NS, OLD_NS, ""}
        named == {<<CubeMesh(pn[1], pn[2], 0, 10)>> :
                     pn \in {pn \in {"", "m"} \X spaces : pn[1] = "m" => pn[2] # ""}}
                 \cup {<<>>, <<CubeMesh("m", OLD_NS, 0, 10), CubeMesh("", CORE_NS, 25, 20)>>,
                       <<CubeMesh("m", OLD_NS, 0, 10), CubeMesh("m", CORE_NS, 25, 20)>>}
        lookups == {<<ModelEntry(doc(r, ms))>> : r \in spaces, ms \in named}
        meshless == {[ModelEntry(doc(CORE_NS, ms)) EXCEPT !.data = d] :
                        ms \in {<<>>, <<CubeMesh("m", OLD_NS, 0, 10)>>},
                        d \in {Bytes(500, 0, 0, <<>>), BinaryCube(0, 20), ObjCube(0, 30)}}
        fallbacks == {<<m>> \o rest : m \in meshless, rest \in {<<>>, <<stl>>, <<obj>>}}
                     \cup {<<e>> \o <<m>> : m \in meshless, e \in {stl, obj}}
        badIndex == {<<I(-1), I(0), I(1)>>, <<I(0), I(-3), I(1)>>, <<I(0), I(1), I(8)>>,
                     <<I(0), NaN, I(1)>>, <<I(9), I(10), I(11)>>}
        firsts == {cube}
                  \cup {WithTriangle(cube, p, t) : p \in {0, 6, 12}, t \in badIndex}
                  \cup {WithVertex(cube, p, v, shift) :
                           p \in {0, 3, 8}, shift \in {0, 1},
                           v \in {Vec(NaN, I(0), I(0)), Vec(I(0), I(0), NaN), Corner(3, 3, 3)}}
        other == CubeMesh("", CORE_NS, 25, 20)
        seconds == {other, WithTriangle(other, 5, <<I(8), I(0), I(1)>>),
                    [other EXCEPT !.hasVertices = FALSE, !.vertices = <<>>],
                    [other EXCEPT !.hasTriangles = FALSE, !.triangles = <<>>]}
        indexed == {<<ModelEntry(doc(CORE_NS, ms))>> :
                       ms \in {<<m>> : m \in firsts}
                              \cup {<<m1, m2>> : m1 \in firsts, m2 \in seconds}
                              \cup {<<m2, m1>> : m1 \in firsts, m2 \in seconds}}
    IN  /\ file \in {File(N_3MF, Zip(1000, entries)) :
                        entries \in orders \cup lookups \cup fallbacks \cup indexed}
        /\ settings = DefaultSettings
        /\ pc = "3mf"
        /\ parsed = NoParse
        /\ volume = NaN
        /\ filamentGrams = NaN
        /\ filamentMeters = NaN
        /\ estimatedTime = NaN
        /\ priceBreakdown = NoPrice
        /\ result = NoResult
        /\ form = NoForm
        /\ tasks = <<>>
        /\ viewer = NoViewer

Spec3MF == Init3MF /\ [][Parse3MF]_vars

\* the entries of an archive that are no directory and whose lower-cased name
\* ends in one of the suffixes, by position
Named(zip, suffixes) ==
    {i \in 1..Len(zip) :
        /\ ~zip[i].dir
        /\ \E sfx \in suffixes :
              /\ Len(zip[i].path) >= Len(sfx)
              /\ SubSeq(toLowerCase(zip[i].path),
                        Len(zip[i].path) - Len(sfx) + 1, Len(zip[i].path)) = sfx}

First(S) == CHOOSE i \in S : \A j \in S : i <= j

\* C17: if the archive has a non-directory entry whose lower-cased name ends
\* in ".model", the first such entry is the one parsed and no .stl/.obj entry
\* is read; only without one is the first ".stl" or ".obj" entry given to the
\* STL or OBJ parser; with neither the call fails with the no-model error.
C17_EntryResolution ==
    pc = "parsed" =>
      LET zip == file.data.zip
          models == Named(zip, {<<".", "m", "o", "d", "e", "l">>})
          loose == Named(zip, {<<".", "s", "t", "l">>, <<".", "o", "b", "j">>})
      IN  IF models # {} THEN parsed = parseModel(zip[First(models)].doc)
          ELSE IF loose = {} THEN parsed = Throw("No model file found in 3MF archive")
          ELSE IF First(loose) \in Named(zip, {<<".", "s", "t", "l">>})
          THEN parsed = calculateSTLVolume(zip[First(loose)].data)
          ELSE parsed = calculateOBJVolume(zip[First(loose)].data)

C17_Witness ==
    /\ pc = "parsed"
    /\ Len(file.data.zip) = 3
    /\ file.data.zip[1] = LooseEntry(N_STL_UPPER, BinaryCube(0, 20))
    /\ file.data.zip[2].path = <<"B", ".", "M", "O", "D", "E", "L">>
    /\ file.data.zip[3].path = <<"3", "D", "/", "a", ".", "m", "o", "d", "e", "l">>
    /\ parsed = Ok(I(64))

\* the document of the first model entry of the archive read
HasModel == Named(file.data.zip, {<<".", "m", "o", "d", "e", "l">>}) # {}
TheModel == file.data.zip[First(Named(file.data.zip, {<<".", "m", "o", "d", "e", "l">>}))].doc

\* the outcome of the lookups in order: the meshes named mesh without a prefix,
\* else the meshes in the namespace the root declares (the core namespace
\* when it declares none), else, with a scan, the meshes of any name
Looked(doc, scan) ==
    LET plain == {i \in 1..Len(doc.meshes) : doc.meshes[i].prefix = ""}
        declared == IF doc.ns = "" THEN CORE_NS ELSE doc.ns
        spaced == {i \in 1..Len(doc.meshes) : doc.meshes[i].ns = declared}
        found == IF plain # {} THEN plain
                 ELSE IF spaced # {} THEN spaced
                 ELSE IF scan THEN 1..Len(doc.meshes) ELSE {}
    IN  IF found = {} THEN Throw("No mesh elements found in 3MF model file")
        ELSE Ok(calculateVolumeFromMeshes(
                    SelectSeq(doc.meshes, LAMBDA m : \E i \in found : doc.meshes[i] = m),
                    U_MILLIMETER))

\* C18: two lookups are attempted for the mesh elements of a model document,
\* the unqualified one and the one in the root's namespace; a document whose
\* mesh elements neither finds fails with the no-mesh error.
C18_TwoLookups == (pc = "parsed" /\ HasModel) => parsed = Looked(TheModel, FALSE)

C18_Witness ==
    /\ pc = "parsed"
    /\ HasModel
    /\ TheModel.ns = CORE_NS
    /\ Len(TheModel.meshes) = 1
    /\ TheModel.meshes[1].prefix = "m"
    /\ TheModel.meshes[1].ns = "http://schemas.microsoft.com/3dmanufacturing/core/2013/01"
    /\ TheModel.meshes[1].hasVertices /\ TheModel.meshes[1].hasTriangles
    /\ parsed = Throw("No mesh elements found in 3MF model file")

\* the statement with the third lookup, the local-name scan
C18_ThreeLookups == (pc = "parsed" /\ HasModel) => parsed = Looked(TheModel, TRUE)

\* the entries of the archive whose bytes, read as STL or as OBJ, give a volume
Readable ==
    {i \in 1..Len(file.data.zip) :
        /\ ~file.data.zip[i].dir
        /\ \E read \in {calculateSTLVolume(file.data.zip[i].data),
                        calculateOBJVolume(file.data.zip[i].data)} :
              read.kind = "ok" /\ Lt(I(0), read.v)}

\* C19: when the archive has a model entry and neither lookup finds a mesh in
\* it, calculate3MFVolume fails with the no-mesh error, whatever the bytes of
\* the entries of the archive are.
C19_NoFallback ==
    (pc = "parsed" /\ HasModel /\ Looked(TheModel, FALSE).kind = "throw")
        => (parsed.kind = "throw" /\ parsed.err = "No mesh elements found in 3MF model file")

C19_Witness ==
    /\ pc = "parsed"
    /\ Len(file.data.zip) = 2
    /\ HasModel
    /\ TheModel.meshes = <<>>
    /\ file.data.zip[2] = LooseEntry(N_STL_UPPER, BinaryCube(0, 20))
    /\ calculateSTLVolume(file.data.zip[2].data) = Ok(I(8))
    /\ parsed.kind = "throw"

\* the statement with the fallback: the bytes of an entry read as STL or OBJ
\* give the volume, and the call fails only when no entry is readable
C19_RawBytesFallback ==
    (pc = "parsed" /\ HasModel /\ Looked(TheModel, FALSE).kind = "throw" /\ Readable # {})
        => \E i \in Readable : parsed \in {calculateSTLVolume(file.data.zip[i].data),
                                          calculateOBJVolume(file.data.zip[i].data)}

\* the vertex children of a mesh an index counts: those whose coordinates
\* parse, or all of them
Counted(mesh, parsedOnly) ==
    IF parsedOnly
    THEN SelectSeq(mesh.vertices, LAMBDA v : ~isNaN(v.x) /\ ~isNaN(v.y) /\ ~isNaN(v.z))
    ELSE mesh.vertices

\* the triangles of a mesh whose three indices are whole numbers from 0 up to
\* the last of the counted children, as triples of those children
Denoted(mesh, parsedOnly) ==
    LET list == Counted(mesh, parsedOnly)
        whole == SelectSeq(mesh.triangles, LAMBDA t :
                     \A i \in 1..3 : t[i].k = "fin" /\ t[i].d = 1
                                     /\ t[i].n >= 0 /\ t[i].n < Len(list))
    IN  [j \in 1..Len(whole) |-> [i \in 1..3 |-> list[whole[j][i].n + 1]]]

RECURSIVE Soup(_, _, _)
Soup(meshes, n, parsedOnly) ==
    IF n = 0 THEN <<>>
    ELSE Soup(meshes, n - 1, parsedOnly)
         \o (IF meshes[n].hasVertices /\ meshes[n].hasTriangles
             THEN Denoted(meshes[n], parsedOnly) ELSE <<>>)

RECURSIVE Cloud(_, _)
Cloud(meshes, n) ==
    IF n = 0 THEN <<>>
    ELSE Cloud(meshes, n - 1)
         \o (IF meshes[n].hasVertices THEN Counted(meshes[n], TRUE) ELSE <<>>)

\* the volume in cm3 of the triangles the indices denote, in millimeters
Indexed(meshes, parsedOnly) ==
    LET soup == Soup(meshes, Len(meshes), parsedOnly)
    IN  Ok(FinalVolume(SumTriangles(soup, 1, Len(soup), Centroid(Cloud(meshes, Len(meshes))))))

\* a model entry alone, its meshes found by the unqualified lookup
OneModel ==
    /\ pc = "parsed"
    /\ Len(file.data.zip) = 1
    /\ HasModel
    /\ TheModel.meshes # <<>>
    /\ \A i \in 1..Len(TheModel.meshes) : TheModel.meshes[i].prefix = ""

\* C20: within each mesh, index k of a triangle denotes the k-th (0-based) of
\* the vertex children of that mesh's own vertices element whose coordinates
\* parse, never a vertex of another mesh; a triangle with a missing, negative,
\* unparseable or out-of-range index contributes nothing and the remaining
\* triangles and meshes are still summed.
C20_OwnParsedVertices == OneModel => parsed = Indexed(TheModel.meshes, TRUE)

C20_Witness ==
    /\ OneModel
    /\ Len(TheModel.meshes) = 2
    /\ Len(TheModel.meshes[1].triangles) = 13
    /\ TheModel.meshes[1].triangles[7] = <<I(0), I(1), I(8)>>
    /\ Len(TheModel.meshes[1].vertices) = 8
    /\ Len(TheModel.meshes[2].triangles) = 13
    /\ TheModel.meshes[2].triangles[6] = <<I(8), I(0), I(1)>>
    /\ TheModel.meshes[2].vertices[1] = Corner(25, 25, 25)
    /\ parsed = Ok(I(9))

\* the statement with index k denoting the k-th of all vertex children
C20_KthChild == OneModel => parsed = Indexed(TheModel.meshes, FALSE)

-----------------------------------------------------------------------------
(* parseBinarySTL on buffers that hold fewer or more records than declared *)

\* a buffer of at least 84 bytes that calculateSTLVolume gives to parseBinarySTL
BinaryRead ==
    /\ pc = "parsed"
    /\ Len(file.data.lines) = 1
    /\ file.data.len >= STL_HEADER
    /\ isBinary(file.data)

\* the whole records of the buffer among the declared ones
Held ==
    LET whole == (file.data.len - STL_HEADER) \div STL_RECORD
    IN  SubSeq(file.data.tris, 1, IF file.data.count < whole THEN file.data.count ELSE whole)

\* validTriangles: the triangles whose volume is added to totalVolume
Added(ts, ref) ==
    Cardinality({j \in 1..Len(ts) :
                    isFinite(calculateTetrahedronVolume(ts[j][1], ts[j][2], ts[j][3], ref))})

-----------------------------------------------------------------------------
(* parseASCIISTL on any sequence of lines *)

\* a text of a few lines that calculateSTLVolume gives to parseASCIISTL
AsciiRead ==
    /\ pc = "parsed"
    /\ ~isBinary(file.data)
    /\ Len(file.data.lines) <= MaxStlLines + 1

\* a vertex line with three numeric fields
Valid(line) ==
    line.t = "vertex" /\ Len(line.f) >= 3 /\ \A k \in 1..3 : line.f[k].k # "nan"

\* the triangles emitted from line i on, pending the vertices accumulated
\* since the last emission or reset
RECURSIVE Assembled(_, _, _)
Assembled(lines, i, pending) ==
    IF i > Len(lines) THEN <<>>
    ELSE IF Valid(lines[i])
    THEN IF Len(pending) = 2
         THEN <<Append(pending, Vec(lines[i].f[1], lines[i].f[2], lines[i].f[3]))>>
              \o Assembled(lines, i + 1, <<>>)
         ELSE Assembled(lines, i + 1,
                        Append(pending, Vec(lines[i].f[1], lines[i].f[2], lines[i].f[3])))
    ELSE IF lines[i].t \in {"endfacet", "endsolid"}
    THEN Assembled(lines, i + 1, <<>>)
    ELSE Assembled(lines, i + 1, pending)

\* C22: over any sequence of lines a triangle is emitted exactly when three
\* valid vertex lines have been accumulated since the last emission or reset;
\* an "endfacet" or "endsolid" line discards the pending vertices, which are
\* in no later triangle; a vertex line with fewer than three numeric fields
\* changes nothing.  The volume returned is summed over these triangles.
C22_TriangleAssembly ==
    AsciiRead =>
        LET emitted == Assembled(file.data.lines, 1, <<>>)
        IN  /\ AsciiTriangles(file.data.lines) = emitted
            /\ parsed = Ok(FinalVolume(SumTriangles(emitted, 1, Len(emitted),
                               Centroid(AsciiAllVertices(file.data.lines)))))

\* a vertex discarded by endfacet, the triangle of the three vertices after it
C22_Witness ==
    /\ AsciiRead
    /\ Len(file.data.lines) = 5
    /\ Valid(file.data.lines[1])
    /\ file.data.lines[2].t = "endfacet"
    /\ Valid(file.data.lines[3]) /\ Valid(file.data.lines[4]) /\ Valid(file.data.lines[5])
    /\ AsciiTriangles(file.data.lines) = <<<<Corner(3, 4, 1), Corner(4, 1, 0), Corner(5, 0, 3)>>>>
    /\ parsed.kind = "ok"
    /\ Lt(I(0), parsed.v)

-----------------------------------------------------------------------------
(* the reference point of each parser, on meshes that are not closed *)

\* the STL buffers above; OBJ texts of the cube's corners and its first faces,
\* with or without a vertex no face names; model documents of the cube's first
\* triangles, with or without a vertex no triangle names and a second mesh
\* that has vertices and no triangles element
InitRef ==
    LET corners == [j \in 1..8 |-> ObjV(CubeCorners(0, 10)[j].x.n, CubeCorners(0, 10)[j].y.n,
                                        CubeCorners(0, 10)[j].z.n)]
        faces == <<ObjF(<<1, 4, 3, 2>>), ObjF(<<5, 6, 7, 8>>), ObjF(<<1, 2, 6, 5>>),
                   ObjF(<<4, 8, 7, 3>>), ObjF(<<1, 5, 8, 4>>), ObjF(<<2, 3, 7, 6>>)>>
        objs == {Text(corners \o extra \o SubSeq(faces, 1, k)) :
                    k \in 1..6, extra \in {<<>>, <<ObjV(30, 40, 50)>>}}
        cube == CubeMesh("", CORE_NS, 0, 10)
        part(k, extra) == [cube EXCEPT !.vertices = @ \o extra,
                                       !.triangles = SubSeq(@, 1, k)]
        bare == [CubeMesh("", CORE_NS, 25, 20) EXCEPT !.hasTriangles = FALSE,
                                                      !.triangles = <<>>]
        docs == {[unit |-> U_MILLIMETER, ns |-> CORE_NS, meshes |-> <<part(k, extra)>> \o more] :
                    k \in 1..12, extra \in {<<>>, <<Corner(30, 40, 50)>>},
                    more \in {<<>>, <<bare>>}}
    IN  /\ file \in {File(N_STL, d) : d \in StlBuffers}
                    \cup {File(N_OBJ, d) : d \in objs}
                    \cup {File(N_3MF, Zip(1000, <<ModelEntry(doc)>>)) : doc \in docs}
        /\ settings = DefaultSettings
        /\ pc = CASE extensionOf(file) = EXT_STL -> "stl"
                  [] extensionOf(file) = EXT_OBJ -> "obj"
                  [] OTHER -> "3mf"
        /\ parsed = NoParse
        /\ volume = NaN
        /\ filamentGrams = NaN
        /\ filamentMeters = NaN
        /\ estimatedTime = NaN
        /\ priceBreakdown = NoPrice
        /\ result = NoResult
        /\ form = NoForm
        /\ tasks = <<>>
        /\ viewer = NoViewer

SpecRef == InitRef /\ [][ParseSTL \/ ParseOBJ \/ Parse3MF]_vars

\* a file read by one of the four parsers: a binary buffer of at least 84
\* bytes, a text of a few lines, an OBJ text, a model document
ReadByParser ==
    \/ BinaryRead
    \/ AsciiRead /\ extensionOf(file) = EXT_STL /\ Len(file.data.lines) > 1
    \/ pc = "parsed" /\ extensionOf(file) \in {EXT_OBJ, EXT_3MF}

\* the triangles pass 2 sums
SummedTriangles ==
    CASE extensionOf(file) = EXT_STL /\ isBinary(file.data) -> Held
      [] extensionOf(file) = EXT_STL /\ ~isBinary(file.data) ->
            Assembled(file.data.lines, 1, <<>>)
      [] extensionOf(file) = EXT_OBJ ->
            TriangulatedByHand(file.data.lines,
                Cardinality({i \in 1..Len(file.data.lines) : file.data.lines[i].t = "f"}))
      [] OTHER -> Soup(TheModel.meshes, Len(TheModel.meshes), TRUE)

\* the vertices each parser reads: the corners of the visited records, every
\* valid vertex line, every v line, every parsed vertex child of every mesh
VerticesRead ==
    LET ofLines(ls) == [j \in 1..Len(ls) |-> Vec(ls[j].f[1], ls[j].f[2], ls[j].f[3])]
    IN  CASE extensionOf(file) = EXT_STL /\ isBinary(file.data) -> VerticesOf(Held)
          [] extensionOf(file) = EXT_STL /\ ~isBinary(file.data) ->
                ofLines(SelectSeq(file.data.lines, Valid))
          [] extensionOf(file) = EXT_OBJ ->
                ofLines(SelectSeq(file.data.lines, LAMBDA l : l.t = "v"))
          [] OTHER -> Cloud(TheModel.meshes, Len(TheModel.meshes))

-----------------------------------------------------------------------------
(* OrderForm: its state, its two effects, its handlers and the calls in flight *)

\* calculatePrintEstimate after `await calculateFileVolume(file)`: the record
\* it resolves to, or the error it rejects with. Each local is computed once,
\* from the values of the locals before it.
estimateOfVolume(volumeCm3, s) ==
    LET withVolume == {[volume |-> volumeCm3]}
        withGrams ==
            {[volume |-> x.volume,
              filamentGrams |-> estimateFilamentGrams(x.volume, s)] : x \in withVolume}
        withMeters ==
            {[volume |-> x.volume, filamentGrams |-> x.filamentGrams,
              filamentMeters |-> estimateFilamentMeters(x.filamentGrams, s.material)] :
                x \in withGrams}
        withTime ==
            {[volume |-> x.volume, filamentGrams |-> x.filamentGrams,
              filamentMeters |-> x.filamentMeters,
              estimatedTime |-> estimatePrintTime(x.volume, s)] : x \in withMeters}
        withPrice ==
            {[volume |-> x.volume, filamentGrams |-> x.filamentGrams,
              filamentMeters |-> x.filamentMeters, estimatedTime |-> x.estimatedTime,
              priceBreakdown |-> calculatePrice(x.estimatedTime, s)] : x \in withTime}
        Returns(x) ==
            IF Falsy(x.volume) \/ Le(x.volume, I(0)) \/ ~isFinite(x.volume)
            THEN [NoResult EXCEPT !.kind = "throw",
                                  !.err = "Failed to calculate volume"]
            ELSE IF ~ResultsFinite(x.filamentGrams, x.filamentMeters, x.estimatedTime,
                                   x.priceBreakdown)
            THEN [NoResult EXCEPT !.kind = "throw",
                                  !.err = "Failed to calculate print estimate"]
            ELSE Package(x.volume, x.filamentGrams, x.filamentMeters, x.estimatedTime,
                         x.priceBreakdown)
    IN  CHOOSE estimate \in {Returns(x) : x \in withPrice} : TRUE

\* calculatePrintEstimate as one call
calculatePrintEstimate(f, s) == estimateOfVolume(calculateFileVolume(f), s)

MaxEvents == 4

OTHER_ADDRESS == "other"

\* calculateDistanceKm from BUSINESS_LOCATION to the neighbourhood's coords,
\* to two decimals
NeighborhoodKm ==
    [n \in {"Thornhill", "Maple"} |->
        IF n = "Thornhill" THEN Rat(359, 100) ELSE Rat(848, 100)]

\* calculateDistanceKm from BUSINESS_LOCATION to the place the geocoder finds
GeocodedKm ==
    [a \in {"1 Yonge St", "9 Keele St"} |-> IF a = "1 Yonge St" THEN I(20) ELSE I(6)]

\* String.prototype.trim on the addresses typed
Trim(a) == IF a = " " THEN "" ELSE a

Task(type, address, f, s) == [type |-> type, address |-> address, file |-> f, settings |-> s]

Without(ts, i) == [j \in 1..(Len(ts) - 1) |-> IF j < i THEN ts[j] ELSE ts[j + 1]]

\* the component's state as one value
Rendered == [file |-> file, settings |-> settings, form |-> form, tasks |-> tasks]

\* the settings object the estimate effect passes: parseInt(quantity) || 1
CallSettings(s) == [s EXCEPT !.quantity = IF Falsy(@) THEN I(1) ELSE @]

\* the distance effect on the rendered state r; its updates are applied to st.
\* The cleanup of its previous run clears the pending timer.
DistanceEffect(r, st) ==
    LET cleared == [st EXCEPT !.tasks = SelectSeq(@, LAMBDA t : t.type # "timer")]
        selectedNeighborhood == r.form.selectedNeighborhood
        deliveryAddress == r.form.deliveryAddress
    IN  IF r.settings.delivery = "delivery"
        THEN IF selectedNeighborhood # "" /\ selectedNeighborhood # OTHER_ADDRESS
             THEN IF selectedNeighborhood \in DOMAIN NeighborhoodKm
                  THEN [cleared EXCEPT !.settings.deliveryDistance =
                                            NeighborhoodKm[selectedNeighborhood]]
                  ELSE cleared
             ELSE IF selectedNeighborhood = OTHER_ADDRESS /\ Trim(deliveryAddress) # ""
             THEN [cleared EXCEPT !.tasks =
                       Append(@, Task("timer", deliveryAddress, NoFile, r.settings))]
             ELSE [cleared EXCEPT !.settings.deliveryDistance = Null]
        ELSE [cleared EXCEPT !.settings.deliveryDistance = Null,
                             !.form.selectedNeighborhood = "",
                             !.form.deliveryAddress = ""]

\* the estimate effect on the rendered state r; its updates are applied to st
EstimateEffect(r, st) ==
    IF r.file = NoFile
    THEN [st EXCEPT !.form.estimate = NoResult]
    ELSE [st EXCEPT !.form.calculating = TRUE,
                    !.tasks = Append(@, Task("estimate", "", r.file,
                                             CallSettings(r.settings)))]

DistanceDeps(r) ==
    <<r.settings.delivery, r.form.selectedNeighborhood, r.form.deliveryAddress>>

EstimateDeps(r) == <<r.file, r.settings>>

\* one commit: the effects whose dependencies differ from the previous render
Commit(prev, r) ==
    LET d == IF DistanceDeps(prev) # DistanceDeps(r) THEN DistanceEffect(r, r) ELSE r
    IN  IF EstimateDeps(prev) # EstimateDeps(r) THEN EstimateEffect(r, d) ELSE d

\* a state update and the renders it causes, until no effect has work left
Rerender(prev, r) ==
    LET r1 == Commit(prev, r)
        r2 == Commit(r, r1)
    IN  Commit(r1, r2)

Apply(r) ==
    LET after == Rerender(Rendered, r)
    IN  /\ file' = after.file
        /\ settings' = after.settings
        /\ form' = [after.form EXCEPT !.events = form.events + 1]
        /\ tasks' = after.tasks
        /\ UNCHANGED <<pc, parsed, volume, filamentGrams, filamentMeters,
                       estimatedTime, priceBreakdown, result, viewer>>

Resolve(r) ==
    LET after == Rerender(Rendered, r)
    IN  /\ file' = after.file
        /\ settings' = after.settings
        /\ form' = after.form
        /\ tasks' = after.tasks
        /\ UNCHANGED <<pc, parsed, volume, filamentGrams, filamentMeters,
                       estimatedTime, priceBreakdown, result, viewer>>

Editable == pc = "form" /\ ~form.submitted /\ form.events < MaxEvents

\* the delivery select
SetDelivery ==
    /\ Editable
    /\ \E d \in {"pickup", "delivery"} :
         /\ d # settings.delivery
         /\ Apply([Rendered EXCEPT !.settings.delivery = d])

\* the neighbourhood select, shown in delivery mode
SetSelectedNeighborhood ==
    /\ Editable
    /\ settings.delivery = "delivery"
    /\ \E n \in DOMAIN NeighborhoodKm \cup {OTHER_ADDRESS} :
         /\ n # form.selectedNeighborhood
         /\ Apply([Rendered EXCEPT !.form.selectedNeighborhood = n])

\* the address input, shown when the neighbourhood is "other"
SetDeliveryAddress ==
    /\ Editable
    /\ settings.delivery = "delivery"
    /\ form.selectedNeighborhood = OTHER_ADDRESS
    /\ \E a \in DOMAIN GeocodedKm \cup {" "} :
         /\ a # form.deliveryAddress
         /\ Apply([Rendered EXCEPT !.form.deliveryAddress = a])

\* the 500 ms timer of the distance effect fires: the request is sent
TimerFires ==
    /\ pc = "form"
    /\ \E i \in 1..Len(tasks) :
         /\ tasks[i].type = "timer"
         /\ tasks' = [tasks EXCEPT ![i].type = "geocode"]
    /\ UNCHANGED <<file, settings, form, pc, parsed, volume, filamentGrams,
                   filamentMeters, estimatedTime, priceBreakdown, result, viewer>>

\* the geocoder answers a request: a place, no place, or a failure
GeocodeResponds ==
    /\ pc = "form"
    /\ \E i \in 1..Len(tasks), answer \in {"found", "empty", "error"} :
         /\ tasks[i].type = "geocode"
         /\ Resolve([Rendered EXCEPT
                !.tasks = Without(tasks, i),
                !.settings.deliveryDistance =
                    IF answer = "found" THEN GeocodedKm[tasks[i].address] ELSE Null])

\* two binary STL files, each the closed mesh of a tetrahedron
FormFiles ==
    LET Tetrahedron(e) ==
            <<<<Corner(0, 0, 0), Corner(0, e, 0), Corner(e, 0, 0)>>,
              <<Corner(0, 0, 0), Corner(e, 0, 0), Corner(0, 0, e)>>,
              <<Corner(0, 0, 0), Corner(0, 0, e), Corner(0, e, 0)>>,
              <<Corner(e, 0, 0), Corner(0, e, 0), Corner(0, 0, e)>>>>
        Solid(e) == Bytes(STL_HEADER + 4 * STL_RECORD, 4, 4, Tetrahedron(e))
    IN  {File(N_STL, Solid(30)), File(N_STL_UPPER, Solid(60))}

\* handleDrop, handleFileChange and the remove button
SetFile ==
    /\ Editable
    /\ \/ \E f \in FormFiles :
            /\ f # file
            /\ Apply([Rendered EXCEPT !.file = f])
       \/ /\ file # NoFile
          /\ Apply([Rendered EXCEPT !.file = NoFile, !.form.estimate = NoResult])

\* the quantity input; NaN stands for a cleared input
SetQuantity ==
    /\ Editable
    /\ \E q \in {I(1), I(3), NaN} :
         /\ q # settings.quantity
         /\ Apply([Rendered EXCEPT !.settings.quantity = q])

\* the name and email inputs
SetContact ==
    /\ Editable
    /\ ~form.contact
    /\ Apply([Rendered EXCEPT !.form.contact = TRUE])

\* the settings objects the estimate effect can pass
FormCalls ==
    {[DefaultSettings EXCEPT !.quantity = q, !.delivery = d, !.deliveryDistance = km] :
        q \in {I(1), I(3)}, d \in {"pickup", "delivery"},
        km \in {Null} \cup {NeighborhoodKm[n] : n \in DOMAIN NeighborhoodKm}
                     \cup {GeocodedKm[a] : a \in DOMAIN GeocodedKm}}

\* calculatePrintEstimate over the calls the form can make
Estimates ==
    UNION {{[file |-> v.file, settings |-> s,
             answer |-> estimateOfVolume(v.volume, s)] : s \in FormCalls} :
              v \in {[file |-> f, volume |-> calculateFileVolume(f)] : f \in FormFiles}}

\* a calculatePrintEstimate call resolves or rejects
EstimateReturns ==
    /\ pc = "form"
    /\ \E i \in 1..Len(tasks) :
         /\ tasks[i].type = "estimate"
         /\ \E call \in {e \in Estimates : e.file = tasks[i].file
                                             /\ e.settings = tasks[i].settings} :
              Resolve([Rendered EXCEPT
                  !.tasks = Without(tasks, i),
                  !.form.estimate = IF call.answer.kind = "estimate"
                                    THEN call.answer ELSE NoResult,
                  !.form.calculating = FALSE])

\* handleSubmit up to the fetch of /api/send-order
HandleSubmit ==
    /\ Editable
    /\ ~form.submitting
    /\ file # NoFile /\ form.estimate # NoResult /\ form.contact
    /\ Apply([Rendered EXCEPT
           !.form.submitting = TRUE,
           !.form.orders = Append(@, [modelFile |-> file, settings |-> settings,
                                      estimate |-> form.estimate]),
           !.tasks = Append(@, Task("order", "", file, settings))])

\* the response of /api/send-order, or its failure
OrderResponds ==
    /\ pc = "form"
    /\ \E i \in 1..Len(tasks), ok \in BOOLEAN :
         /\ tasks[i].type = "order"
         /\ Resolve([Rendered EXCEPT
                !.tasks = Without(tasks, i),
                !.form.submitted = IF ok THEN TRUE ELSE @,
                !.form.submitting = FALSE])

InitForm ==
    /\ file = NoFile
    /\ settings = DefaultSettings
    /\ pc = "form"
    /\ parsed = NoParse
    /\ volume = NaN
    /\ filamentGrams = NaN
    /\ filamentMeters = NaN
    /\ estimatedTime = NaN
    /\ priceBreakdown = NoPrice
    /\ result = NoResult
    /\ form = NoForm
    /\ tasks = <<>>
    /\ viewer = NoViewer

NextForm ==
    \/ SetDelivery
    \/ SetSelectedNeighborhood
    \/ SetDeliveryAddress
    \/ TimerFires
    \/ GeocodeResponds
    \/ SetFile
    \/ SetQuantity
    \/ SetContact
    \/ EstimateReturns
    \/ HandleSubmit
    \/ OrderResponds

SpecForm == InitForm /\ [][NextForm]_vars

-----------------------------------------------------------------------------
(* The delivery distance the order form holds *)

InFlight(type) == {i \in 1..Len(tasks) : tasks[i].type = type}

\* the distance of what is selected now: the neighbourhood's, or the one the
\* geocoder gives for the address entered; null when nothing is selected
CurrentKm ==
    IF form.selectedNeighborhood \in DOMAIN NeighborhoodKm
    THEN NeighborhoodKm[form.selectedNeighborhood]
    ELSE IF form.selectedNeighborhood = OTHER_ADDRESS
              /\ form.deliveryAddress \in DOMAIN GeocodedKm
    THEN GeocodedKm[form.deliveryAddress]
    ELSE Null

\* C24: what holds of deliveryDistance. A step that changes the delivery
\* mode, the neighbourhood or the address leaves it as the distance effect sets
\* it: the neighbourhood's distance in delivery mode, unchanged when a
\* non-blank address under "other" starts the timer, null otherwise; and any
\* other step changes it only by delivering the answer of a geocoding request,
\* whatever the form shows by then.
C24_DistanceFollowsEffect ==
    [][pc = "form" =>
         LET selected == form'.selectedNeighborhood
             moved == <<settings.delivery, form.selectedNeighborhood,
                        form.deliveryAddress>>
                      # <<settings'.delivery, selected, form'.deliveryAddress>>
             answered == \E i \in InFlight("geocode") :
                            /\ Cardinality(InFlight("geocode")')
                                 = Cardinality(InFlight("geocode")) - 1
                            /\ settings'.deliveryDistance
                                 \in {Null, GeocodedKm[tasks[i].address]}
         IN  IF moved
             THEN settings'.deliveryDistance =
                    IF settings'.delivery # "delivery" THEN Null
                    ELSE IF selected \in DOMAIN NeighborhoodKm
                    THEN NeighborhoodKm[selected]
                    ELSE IF selected = OTHER_ADDRESS /\ Trim(form'.deliveryAddress) # ""
                    THEN settings.deliveryDistance
                    ELSE Null
             ELSE answered \/ settings'.deliveryDistance = settings.deliveryDistance
      ]_vars

\* a neighbourhood is selected and its distance held while the request for an
\* address entered before is still to be answered
C24_Witness ==
    /\ pc = "form"
    /\ settings.delivery = "delivery"
    /\ form.selectedNeighborhood = "Maple"
    /\ settings.deliveryDistance = NeighborhoodKm["Maple"]
    /\ InFlight("geocode") # {}

\* the claim as stated: non-null only in delivery mode, and then the distance
\* of the neighbourhood selected or of the address entered
C24_DistanceIsCurrent ==
    (pc = "form" /\ settings.deliveryDistance # Null) =>
        /\ settings.delivery = "delivery"
        /\ settings.deliveryDistance = CurrentKm

-----------------------------------------------------------------------------
(* The estimate the order form holds *)

AnswerTo(task) ==
    LET answer == calculatePrintEstimate(task.file, task.settings)
    IN  IF answer.kind = "estimate" THEN answer ELSE NoResult

\* the estimate for the file and the settings the form shows now
FreshEstimate ==
    IF file = NoFile THEN NoResult
    ELSE AnswerTo(Task("estimate", "", file, CallSettings(settings)))

\* C25: what holds of the estimate and of the calculating flag. Whenever a
\* running calculatePrintEstimate call completes, the form takes that call's
\* result (null if it failed) and clears the flag, whatever file and settings
\* the form shows by then and whether or not other calls are still running;
\* the flag is set only while a call is running.
C25_LastCompletedWins ==
    [][pc = "form" =>
         /\ Cardinality(InFlight("estimate")') < Cardinality(InFlight("estimate")) =>
              /\ \E i \in InFlight("estimate") : form'.estimate = AnswerTo(tasks[i])
              /\ ~form'.calculating
         /\ form'.calculating => InFlight("estimate")' # {}
      ]_vars

\* the file was replaced while the call for the first file was running: two
\* calls for different files are in flight
C25_Witness ==
    /\ pc = "form"
    /\ form.calculating
    /\ \E i, j \in InFlight("estimate") : tasks[i].file # tasks[j].file

\* the claim as stated: with no call running the estimate is the one for the
\* latest file and settings, and the flag is set while a call is running
C25_EstimateFresh ==
    pc = "form" =>
        /\ InFlight("estimate") = {} => form.estimate = FreshEstimate
        /\ InFlight("estimate") # {} => form.calculating

-----------------------------------------------------------------------------
(* The orders the form sends *)

\* the estimate calculatePrintEstimate gives for the file and the values of an order
EstimateOf(order) ==
    AnswerTo(Task("estimate", "", order.modelFile, CallSettings(order.settings)))

\* C26: what holds of an order. handleSubmit sends the file, the settings and
\* the estimate the form holds at that moment: a file is selected and the
\* estimate is the result of some completed calculatePrintEstimate call, of a
\* call the form made for some file and some settings, not necessarily the
\* ones sent with it.
C26_OrderIsSnapshot ==
    [][(pc = "form" /\ Len(form'.orders) > Len(form.orders)) =>
         /\ form'.orders = Append(form.orders,
                                  [modelFile |-> file, settings |-> settings,
                                   estimate |-> form.estimate])
         /\ file # NoFile
         /\ form.estimate.kind = "estimate"
         /\ \E call \in Estimates : call.answer = form.estimate
      ]_vars

\* an order was sent after the estimate for its file and values had arrived
C26_Witness ==
    /\ pc = "form"
    /\ Len(form.orders) = 1
    /\ form.orders[1].estimate = EstimateOf(form.orders[1])
    /\ form.submitted

\* the claim as stated: every order carries the estimate computed from the
\* file and the values sent with it
C26_OrderConsistent ==
    pc = "form" =>
        \A k \in 1..Len(form.orders) :
            form.orders[k].estimate = EstimateOf(form.orders[k])

-----------------------------------------------------------------------------
(* The manufacturing price end to end, as a function of the quantity *)

OneUnit(s) == [s EXCEPT !.quantity = I(1)]

\* calculatePrintEstimate's unrounded manufacturing price for one unit of the
\* same volume under the same settings
PriceOfOne ==
    manufacturingPriceOf(estimatePrintTime(volume, OneUnit(settings)), OneUnit(settings))

\* the time cost of one unit before the minimum charge
CostOfOne ==
    Mul(Mul(Div(estimatePrintTime(volume, OneUnit(settings)), I(60)),
            I(BASE_RATE_PER_HOUR)),
        speedMultiplier(settings.speed))

Discounted(q) == Mul(q, Sub(I(1), getQuantityDiscount(q)))

\* C27: what holds of the unrounded manufacturing price for quantity q. The
\* estimated time already covers the q units, so the minimum charge is applied
\* to q times the cost of one unit and the result is multiplied by q again:
\* the price is q * (1 - d(q)) * max(10, q * cost of one unit).
C27_QuantityCountedTwice ==
    (Priced /\ isFinite(priceBreakdown.manufacturingPrice)) =>
        priceBreakdown.manufacturingPrice =
            Mul(Discounted(settings.quantity),
                MathMax(I(MINIMUM_CHARGE), Mul(settings.quantity, CostOfOne)))

\* two units whose joint time costs more than the minimum charge
C27_Witness ==
    /\ Priced
    /\ settings.quantity = I(2)
    /\ isFinite(priceBreakdown.manufacturingPrice)
    /\ Lt(I(MINIMUM_CHARGE), Mul(settings.quantity, CostOfOne))
    /\ Lt(Mul(Discounted(settings.quantity), PriceOfOne),
          priceBreakdown.manufacturingPrice)

\* the claim as stated: the price for q is q * (1 - d(q)) * the price for one
C27_PerUnitIndependent ==
    (Priced /\ isFinite(priceBreakdown.manufacturingPrice)) =>
        priceBreakdown.manufacturingPrice =
            Mul(Discounted(settings.quantity), PriceOfOne)

-----------------------------------------------------------------------------
(* The manufacturing price as the quantity grows *)

\* calculatePrice's manufacturingPrice for one unit more, same time and speed
PriceOfOneMore ==
    manufacturingPriceOf(estimatedTime,
                         [settings EXCEPT !.quantity = Add(settings.quantity, I(1))])

\* C28: for a fixed estimated time and speed, the manufacturingPrice for
\* quantity q + 1 is never lower than the one for quantity q, across the
\* discount thresholds as well; when the price is finite it is strictly higher.
C28_MonotoneInQuantity ==
    Priced =>
        /\ ~Lt(PriceOfOneMore, priceBreakdown.manufacturingPrice)
        /\ isFinite(priceBreakdown.manufacturingPrice) =>
               Lt(priceBreakdown.manufacturingPrice, PriceOfOneMore)

\* nine units priced, the tenth brings the 15% discount: the price rises, by
\* less than one undiscounted unit
C28_Witness ==
    /\ Priced
    /\ settings.quantity = I(9)
    /\ getQuantityDiscount(I(10)) = Rat(15, 100)
    /\ Lt(priceBreakdown.manufacturingPrice, PriceOfOneMore)
    /\ Lt(Sub(PriceOfOneMore, priceBreakdown.manufacturingPrice),
          priceWithMinimum(estimatedTime, settings))

-----------------------------------------------------------------------------
(* ModelViewer, Model and the three loaders of the preview *)

MaxRenders == 3

\* the loader's test for a binary STL
previewIsBinary(data) == data.len > STL_HEADER /\ (data.b80 < 32 \/ data.b80 > 126)

\* what reader.onload of STLLoader does with the bytes: the number of vertices
\* of the geometry it hands to onLoad, or -1 when it returns without calling it
STLLoaderVertices(data) ==
    IF previewIsBinary(data)
    THEN 3 * BinaryVolumeIterations(data, 0, STL_HEADER)
    ELSE LET vertices == AsciiAllVertices(data.lines)
         IN  IF Len(vertices) = 0 THEN -1 ELSE Len(vertices)

\* the same for OBJLoader
OBJLoaderVertices(data) ==
    LET vertices == ObjVertices(data.lines)
    IN  IF Len(vertices) = 0 THEN -1 ELSE Len(vertices)

\* the entry ThreeMFLoader reads: the first .stl or .obj entry, else the first
\* .model entry, else the first other file; 0 when the archive holds no file
PreviewEntry(zip) ==
    LET Pick(suffixes) ==
            {i \in 1..Len(zip) :
                /\ ~zip[i].dir
                /\ \E s \in suffixes : endsWith(toLowerCase(zip[i].path), s)}
        files == {i \in 1..Len(zip) : ~zip[i].dir}
        Lowest(S) == CHOOSE i \in S : \A j \in S : i <= j
    IN  IF Pick({DOT_STL, DOT_OBJ}) # {} THEN Lowest(Pick({DOT_STL, DOT_OBJ}))
        ELSE IF Pick({DOT_MODEL}) # {} THEN Lowest(Pick({DOT_MODEL}))
        ELSE IF files # {} THEN Lowest(files)
        ELSE 0

\* the number of vertices ThreeMFLoader finds in the entry it read; with none
\* it calls onError
ThreeMFLoaderVertices(entry) ==
    LET path == toLowerCase(entry.path)
    IN  IF endsWith(path, DOT_MODEL)
        THEN Len(AllMeshVertices(entry.doc.meshes, Len(entry.doc.meshes), I(1)))
        ELSE IF endsWith(path, DOT_STL) /\ STLLoaderVertices(entry.data) > 0
        THEN STLLoaderVertices(entry.data)
        ELSE IF endsWith(path, DOT_OBJ) /\ OBJLoaderVertices(entry.data) > 0
        THEN OBJLoaderVertices(entry.data)
        ELSE 0

Load(type, f, instance) ==
    [type |-> type, file |-> f, instance |-> instance, cancelled |-> FALSE]

NoCall == [cancelled |-> FALSE, settled |-> "none", called |-> "none"]

\* ModelViewer with its Model as one value
Shown == [file |-> file, tasks |-> tasks, view |-> viewer]

\* the cleanup of the ThreeMFLoader effect: cancelled = true
Cleanup(ts) ==
    [i \in 1..Len(ts) |->
        IF ts[i].type \in {"arrayBuffer", "loadAsync", "entry"}
        THEN [ts[i] EXCEPT !.cancelled = TRUE] ELSE ts[i]]

\* the placeholder is rendered: the Canvas and its Model are unmounted
Unmount(v) ==
    [v EXCEPT !.view.mounted = FALSE, !.view.geometry = NoFile, !.tasks = Cleanup(@)]

\* ModelViewer renders. Model gets new onLoad and onError closures, so the
\* effect of the loader it renders runs again.
RenderViewer(v) ==
    IF v.file = NoFile \/ v.view.error THEN Unmount(v)
    ELSE LET m == IF v.view.mounted THEN v
                  ELSE [v EXCEPT !.view.mounted = TRUE,
                                 !.view.instance = @ + 1,
                                 !.view.geometry = NoFile]
             extension == extensionOf(m.file)
             Start(type) ==
                 [m EXCEPT !.tasks = Append(Cleanup(@),
                                            Load(type, m.file, m.view.instance))]
         IN  IF m.view.geometry # NoFile THEN [m EXCEPT !.tasks = Cleanup(@)]
             ELSE CASE extension = EXT_STL -> Start("readAsArrayBuffer")
                    [] extension = EXT_OBJ -> Start("readAsText")
                    [] extension = EXT_3MF -> Start("arrayBuffer")
                    [] OTHER -> Unmount([m EXCEPT !.view.error = TRUE,
                                                  !.view.loading = FALSE])

\* the renders that follow state updates
Settle(before, v) ==
    IF <<before.view.loading, before.view.error, before.view.geometry>>
         # <<v.view.loading, v.view.error, v.view.geometry>>
    THEN RenderViewer(v)
    ELSE v

\* Model's handleLoad called by the load of Model instance n
handleLoad(v, n, f, vertices) ==
    IF vertices = 0
    THEN [v EXCEPT !.view.error = TRUE, !.view.loading = FALSE]
    ELSE [v EXCEPT !.view.geometry =
                       IF v.view.mounted /\ v.view.instance = n THEN f ELSE @,
                   !.view.loading = FALSE]

\* Model's handleError
handleError(v) == [v EXCEPT !.view.error = TRUE, !.view.loading = FALSE]

View(v) ==
    /\ file' = v.file
    /\ tasks' = v.tasks
    /\ viewer' = v.view
    /\ UNCHANGED <<settings, form, pc, parsed, volume, filamentGrams, filamentMeters,
                   estimatedTime, priceBreakdown, result>>

\* the files given to the preview
PreviewFiles ==
    LET facet == <<Corner(0, 0, 0), Corner(10, 0, 0), Corner(0, 10, 0)>>
        mesh == [prefix |-> "", ns |-> CORE_NS, hasVertices |-> TRUE,
                 vertices |-> facet, hasTriangles |-> TRUE,
                 triangles |-> <<<<I(0), I(1), I(2)>>>>]
        model == [unit |-> U_MILLIMETER, ns |-> CORE_NS, meshes |-> <<mesh>>]
    IN  {File(N_STL, Bytes(STL_HEADER + STL_RECORD, 1, 1, <<facet>>)),
         File(N_STL, Bytes(STL_HEADER + 6, 0, 0, <<>>)),
         File(N_STL, Text(<<KeywordLine("endsolid", 8)>>)),
         File(N_OBJ, Text(<<ObjV(0, 0, 0), ObjV(10, 0, 0), ObjV(0, 10, 0)>>)),
         File(N_OBJ, Text(<<OtherLine(4)>>)),
         File(N_3MF, Zip(600, <<DirEntry, ModelEntry(model)>>)),
         File(N_3MF, Zip(100, <<DirEntry>>)),
         File(N_3MF, Text(<<OtherLine(10)>>)),
         File(N_STEP, Bytes(0, 0, 0, <<>>))}

Previewing == pc = "preview"

\* the file prop changes: render, then the effect on [file]
ShowFile ==
    /\ Previewing
    /\ viewer.renders < MaxRenders
    /\ \E f \in PreviewFiles \cup {NoFile} :
         /\ f # file
         /\ LET rendered == RenderViewer([Shown EXCEPT !.file = f,
                                                       !.view.renders = @ + 1,
                                                       !.view.last = NoCall])
                after == IF f = NoFile THEN rendered
                         ELSE [rendered EXCEPT !.view.loading = TRUE,
                                               !.view.error = FALSE]
            IN  View(Settle(rendered, after))

\* the parent renders again with the same file
ParentRenders ==
    /\ Previewing
    /\ viewer.renders < MaxRenders
    /\ file # NoFile
    /\ View(RenderViewer([Shown EXCEPT !.view.renders = @ + 1, !.view.last = NoCall]))

Settled(i, how, called) ==
    [Shown EXCEPT !.tasks = Without(tasks, i),
                  !.view.last = [cancelled |-> tasks[i].cancelled, settled |-> how,
                                 called |-> called]]

\* reader.onload or reader.onerror of STLLoader and OBJLoader
ReaderEnds ==
    /\ Previewing
    /\ \E i \in 1..Len(tasks), read \in BOOLEAN :
         /\ tasks[i].type \in {"readAsArrayBuffer", "readAsText"}
         /\ LET vertices == IF ~read THEN -1
                            ELSE IF tasks[i].type = "readAsArrayBuffer"
                            THEN STLLoaderVertices(tasks[i].file.data)
                            ELSE OBJLoaderVertices(tasks[i].file.data)
            IN  IF vertices < 0
                THEN View(Settled(i, IF read THEN "resolved" ELSE "rejected", "none"))
                ELSE LET v == Settled(i, "resolved", "onLoad")
                     IN  View(Settle(v, handleLoad(v, tasks[i].instance,
                                                   tasks[i].file, vertices)))

\* the catch block of load3MF
Rejected(i) ==
    LET v == Settled(i, "rejected", "onError")
    IN  View(Settle(v, handleError(v)))

\* await file.arrayBuffer() settles
ArrayBufferSettles ==
    /\ Previewing
    /\ \E i \in 1..Len(tasks), read \in BOOLEAN :
         /\ tasks[i].type = "arrayBuffer"
         /\ IF read
            THEN View([Shown EXCEPT !.tasks[i].type = "loadAsync"])
            ELSE Rejected(i)

\* await JSZip.loadAsync(arrayBuffer) settles, up to the read of the entry
LoadAsyncSettles ==
    /\ Previewing
    /\ \E i \in 1..Len(tasks) :
         /\ tasks[i].type = "loadAsync"
         /\ IF ~tasks[i].file.data.isZip THEN Rejected(i)
            ELSE IF tasks[i].cancelled THEN View(Settled(i, "resolved", "none"))
            ELSE IF PreviewEntry(tasks[i].file.data.zip) = 0
            THEN LET v == Settled(i, "resolved", "onError")
                 IN  View(Settle(v, handleError(v)))
            ELSE View([Shown EXCEPT !.tasks[i].type = "entry"])

\* await modelFile.async('arraybuffer') settles, to the end of load3MF
EntrySettles ==
    /\ Previewing
    /\ \E i \in 1..Len(tasks), read \in BOOLEAN :
         /\ tasks[i].type = "entry"
         /\ LET zip == tasks[i].file.data.zip
                vertices == ThreeMFLoaderVertices(zip[PreviewEntry(zip)])
            IN  IF ~read THEN Rejected(i)
                ELSE IF tasks[i].cancelled THEN View(Settled(i, "resolved", "none"))
                ELSE IF vertices = 0
                THEN LET v == Settled(i, "resolved", "onError")
                     IN  View(Settle(v, handleError(v)))
                ELSE LET v == Settled(i, "resolved", "onLoad")
                     IN  View(Settle(v, handleLoad(v, tasks[i].instance,
                                                   tasks[i].file, vertices)))

InitViewer ==
    /\ file = NoFile
    /\ settings = DefaultSettings
    /\ pc = "preview"
    /\ parsed = NoParse
    /\ volume = NaN
    /\ filamentGrams = NaN
    /\ filamentMeters = NaN
    /\ estimatedTime = NaN
    /\ priceBreakdown = NoPrice
    /\ result = NoResult
    /\ form = NoForm
    /\ tasks = <<>>
    /\ viewer = NoViewer

NextViewer ==
    \/ ShowFile
    \/ ParentRenders
    \/ ReaderEnds
    \/ ArrayBufferSettles
    \/ LoadAsyncSettles
    \/ EntrySettles

SpecViewer == InitViewer /\ [][NextViewer]_vars

\* every read, and every promise of load3MF, ends
SpecViewerFair ==
    /\ SpecViewer
    /\ WF_vars(ReaderEnds)
    /\ WF_vars(ArrayBufferSettles)
    /\ WF_vars(LoadAsyncSettles)
    /\ WF_vars(EntrySettles)

-----------------------------------------------------------------------------
(* How the loading of a preview ends *)

\* Model holds a geometry, so it renders the mesh and no loader
StuckOnShown == viewer.mounted /\ viewer.geometry # NoFile

\* the STLLoader or OBJLoader of the file has returned without a geometry
\* and without a call, and no load is left
StuckOnSilent ==
    /\ extensionOf(file) \in {EXT_STL, EXT_OBJ}
    /\ viewer.mounted /\ viewer.geometry = NoFile
    /\ tasks = <<>>

\* C29: how loading ends, every read and promise ending. With a file shown and
\* loading true, loading becomes false (the geometry was handed to Model, or
\* a 3MF load failed, or the extension is not supported), or the file is taken
\* away, or the preview is in one of two states with no load left to call
\* onLoad: Model still holds the geometry of a file shown before, or the STL
\* or OBJ loader has ended without a geometry.
C29_LoadingEndsOrStuck ==
    (Previewing /\ file # NoFile /\ viewer.loading)
        ~> (~viewer.loading \/ file = NoFile \/ StuckOnShown \/ StuckOnSilent)

\* a second file was loaded after a first and its geometry is shown
C29_Witness ==
    /\ Previewing
    /\ file # NoFile
    /\ viewer.renders >= 2
    /\ ~viewer.loading /\ ~viewer.error
    /\ viewer.geometry = file

\* the claim as stated: with a file shown, loading always becomes false
C29_LoadingEnds ==
    (Previewing /\ file # NoFile /\ viewer.loading)
        ~> (~viewer.loading \/ file = NoFile)

-----------------------------------------------------------------------------
(* What a cancelled 3MF load calls *)

\* C30: what holds of a ThreeMFLoader load whose effect cleanup has run. When
\* the await it is suspended at resolves it calls neither onLoad nor onError;
\* it never calls onLoad; when the await rejects the catch block calls
\* onError.
C30_CancelledCallsOnlyOnError ==
    (Previewing /\ viewer.last.cancelled) =>
        /\ viewer.last.called # "onLoad"
        /\ viewer.last.settled = "resolved" => viewer.last.called = "none"
        /\ viewer.last.settled = "rejected" => viewer.last.called = "onError"

\* a cancelled load whose await resolved has ended without a call
C30_Witness ==
    /\ Previewing
    /\ viewer.last.cancelled
    /\ viewer.last.settled = "resolved"
    /\ viewer.last.called = "none"

\* the claim as stated: a cancelled load calls nothing
C30_CancelledCallsNothing ==
    (Previewing /\ viewer.last.cancelled) => viewer.last.called = "none"

====
